---- MODULE Spec2Model ----
(***************************************************************************)
(* Cart, checkout and catalog administration of the e-commerce backend.    *)
(*                                                                         *)
(* The persistent store (Prisma tables product, cartItem, order,           *)
(* orderItem) is the shared state.  Route handlers are asynchronous: each  *)
(* `await prisma...` is one atomic step on the store, and the steps of     *)
(* requests that are in flight at the same time interleave.  A request     *)
(* occupies one of the slots of `req`, which holds the handler's local     *)
(* variables and, once it has returned, the HTTP response.                 *)
(*                                                                         *)
(* Numbers: Product.price and Order.totalAmount are Float columns; the     *)
(* model keeps prices as whole currency units.  Product.stock and          *)
(* CartItem.quantity are Int columns.                                      *)
(***************************************************************************)
EXTENDS Integers, Sequences, FiniteSets, TLC

VARIABLES product, cartItem, order, orderItem, invoice, req, started,
          user, invalidToken, productReview, brand, category

vars == <<product, cartItem, order, orderItem, invoice, req, started,
          user, invalidToken, productReview, brand, category>>

(* The tables of the authentication: users and revoked tokens. *)
authVars == <<user, invalidToken>>

(* The tables products are classified by. *)
taxonomy == <<brand, category>>

----------------------------------------------------------------------------
(* Bounds of the exploration *)

MaxStock == 2        \* largest stock value an administrator sets
MaxQty == 2          \* largest quantity a cart request asks for
MaxRequests == 2     \* requests started: cart, checkout and catalog writes
MaxLen == 2          \* length of a form-data field

Users == {"u1", "u2"}
Admins == {"a1"}
ProductIds == {"A", "B", "C"}
Slots == {"r1", "r2"}

(* The catalog the explored requests start from, product id |-> stock and
   price: values the seed script draws or an administrator has set. *)
InitStock == [A |-> 1, B |-> 2]
InitPrice == [A |-> 2, B |-> 1]

(* Carts that customers have filled before the explored requests start:
   each line was added by POST /api/cart while stock >= quantity held. *)
CartLine(id, u, p, q) == [id |-> id, userId |-> u, productId |-> p, quantity |-> q]

(* The reviews customers have written before the explored requests start. *)
Review(id, u, p) == [id |-> id, userId |-> u, productId |-> p]
InitReviews == {Review(1, "u2", "A")}

(* Brands and categories: rows of an id and a name that is unique in its
   table.  Every product of the explored catalog is of brand 1 and of
   category 1. *)
Named(id, name) == [id |-> id, name |-> name]
InitBrand == {Named("b1", "n1"), Named("b2", "n2")}
InitCategory == {Named("c1", "n1"), Named("c2", "n2")}
BrandOfProducts == "b1"
CategoryOfProducts == "c1"

InitCarts ==
    { {},
      {CartLine(1, "u1", "A", 1), CartLine(2, "u2", "A", 1)},
      {CartLine(1, "u1", "A", 1), CartLine(2, "u1", "B", 1)} }

----------------------------------------------------------------------------
(* JSON request values.  A number n is carried as twice its value, so that *)
(* a non-integer number (n + 1/2) is representable.                        *)

JsonNumber(n2) == [t |-> "number", twice |-> n2]
JsonUndefined == [t |-> "undefined", twice |-> 0]
JsonNull == [t |-> "object", twice |-> 0]
JsonString == [t |-> "string", twice |-> 0]

JsonValues(maxInt) ==
    {JsonUndefined, JsonNull, JsonString} \cup {JsonNumber(n2) : n2 \in -2 .. 2 * maxInt}

IsNumber(v) == v.t = "number"
IsInteger(v) == IsNumber(v) /\ v.twice % 2 = 0
NumberValue(v) == v.twice \div 2

----------------------------------------------------------------------------
(* multipart/form-data fields: a field is a string, modelled as a sequence *)
(* of characters; a missing field is formData.get(...) = null.             *)

Chars == {"-", "0", "2", "a"}
Digits == {"0", "2"}

DigitValue(c) == IF c = "2" THEN 2 ELSE 0

FormStrings == UNION {[1 .. n -> Chars] : n \in 0 .. MaxLen}
FormNull == <<"null">>
FormFields == FormStrings \cup {FormNull}

NaN == [nan |-> TRUE, value |-> 0]
Num(n) == [nan |-> FALSE, value |-> n]

(* Value of the longest prefix of decimal digits of s, from position i, with
   acc the value of the digits consumed so far. *)
RECURSIVE DigitPrefix(_, _, _)
DigitPrefix(s, i, acc) ==
    IF i > Len(s) \/ s[i] \notin Digits
    THEN acc
    ELSE DigitPrefix(s, i + 1, 10 * acc + DigitValue(s[i]))

(* parseInt(string): an optional sign, then the longest prefix of decimal
   digits; NaN when there is no digit. *)
ParseInt(s) ==
    LET neg == Len(s) >= 1 /\ s[1] = "-"
        first == IF neg THEN 2 ELSE 1
    IN  IF first > Len(s) \/ s[first] \notin Digits
        THEN NaN
        ELSE Num((IF neg THEN -1 ELSE 1) * DigitPrefix(s, first, 0))

(* JavaScript truthiness of a form field: null and "" are falsy. *)
Truthy(f) == f # FormNull /\ f # <<>>

(* parseFloat(string) on strings over Chars (no ".", no exponent): an
   optional sign, then the longest prefix of decimal digits. *)
ParseFloat(s) ==
    LET neg == Len(s) >= 1 /\ s[1] = "-"
        first == IF neg THEN 2 ELSE 1
    IN  IF first > Len(s) \/ s[first] \notin Digits
        THEN NaN
        ELSE Num((IF neg THEN -1 ELSE 1) * DigitPrefix(s, first, 0))

----------------------------------------------------------------------------
(* Rows and handler locals *)

NoProduct == [id |-> "none", price |-> 0, stock |-> 0]
NoCartItem == [id |-> 0, userId |-> "none", productId |-> "none", quantity |-> 0]

(* A JWT: the payload jwt.sign was given, the second it was issued in (iat),
   and whether jwt.verify accepts it: "live", "expired" or "forged". *)
Token(userId, role, iat, kind) ==
    [userId |-> userId, role |-> role, iat |-> iat, kind |-> kind]
NoToken == Token("none", "none", 0, "none")

(* What auth returns; NoUser is null. *)
AuthUser(id, role) == [id |-> id, role |-> role]
NoUser == AuthUser("none", "none")

NoResponse ==
    [status |-> 0, error |-> "", productId |-> "none", availableStock |-> 0,
     requestedQuantity |-> 0, orderId |-> 0, invoiceUrl |-> 0, totalAmount |-> 0,
     user |-> NoUser, accessToken |-> NoToken,
     items |-> {}, totalPrice |-> 0, itemCount |-> 0]

Response(status, error) == [NoResponse EXCEPT !.status = status, !.error = error]

IdleReq ==
    [op |-> "none", pc |-> "idle", user |-> "none", productId |-> "none",
     quantity |-> 0, product |-> NoProduct, existingCartItem |-> NoCartItem,
     cartItems |-> {}, totalAmount |-> 0, order |-> 0,
     cartItemId |-> 0, userId |-> "", body |-> JsonUndefined,
     token |-> NoToken, variant |-> "", reviews |-> {},
     table |-> "", name |-> "", email |-> "", password |-> "",
     data |-> [rejected |-> TRUE, price |-> NaN, stock |-> NaN],
     response |-> NoResponse]

(* The handler of slot r returns resp: its locals are dropped. *)
Return(r, resp) ==
    req' = [req EXCEPT ![r] = [IdleReq EXCEPT !.op = req[r].op, !.user = req[r].user,
                                              !.pc = "done", !.response = resp]]

(* Some handler has returned and its response is being sent. *)
Responding == \E r \in Slots : req[r].pc = "done"

(* The handler of slot r is at step pc of operation op; a response is sent
   as soon as its handler has returned, before anything else happens. *)
At(r, op, pc) == ~Responding /\ req[r].op = op /\ req[r].pc = pc

(* A new request takes the first slot that is free. *)
Free(r) ==
    /\ ~Responding
    /\ req[r].pc = "idle"
    /\ \A q \in Slots : req[q].pc = "idle" => ~(q = "r1" /\ r = "r2")

(* The response of slot r is sent: the request is over. *)
Respond(r) ==
    /\ req[r].pc = "done"
    /\ req' = [req EXCEPT ![r] = IdleReq]
    /\ UNCHANGED <<product, cartItem, order, orderItem, invoice, started>>
    /\ UNCHANGED <<authVars, productReview, taxonomy>>
RECURSIVE SumOver(_, _)
(* Sum of f[x] over the finite set S. *)
SumOver(S, f) ==
    IF S = {} THEN 0
    ELSE LET x == CHOOSE y \in S : TRUE IN f[x] + SumOver(S \ {x}, f)

CartOf(u) == {c \in cartItem : c.userId = u}
ItemsOf(o) == {i \in orderItem : i.orderId = o}

(* A cart item id no row has and no handler in flight still holds. *)
FreshCartItemId ==
    LET used == {c.id : c \in cartItem} \cup {req[r].existingCartItem.id : r \in Slots}
                    \cup {req[r].cartItemId : r \in Slots}
    IN  CHOOSE n \in 1 .. (Cardinality(used) + 1) :
            n \notin used /\ \A m \in 1 .. (n - 1) : m \in used

----------------------------------------------------------------------------
(* The users of the database: the customers registered through POST
   /api/auth/register and the administrator the seed script creates. *)
UserRow(id, role) == [id |-> id, email |-> id, password |-> "secret", role |-> role]

InitUser ==
    [id \in Users \cup Admins |->
        UserRow(id, IF id \in Admins THEN "ADMIN" ELSE "CUSTOMER")]

Init ==
    /\ product = [p \in DOMAIN InitStock |->
                    [id |-> p, price |-> InitPrice[p], stock |-> InitStock[p]]]
    /\ cartItem \in InitCarts
    /\ order = {}
    /\ orderItem = {}
    /\ invoice = {}
    /\ req = [r \in Slots |-> IdleReq]
    /\ started = 0
    /\ user = InitUser
    /\ invalidToken = {}
    /\ productReview = InitReviews
    /\ brand = InitBrand
    /\ category = InitCategory

store == <<product, cartItem, order, orderItem, invoice>>

----------------------------------------------------------------------------
(* Authentication: lib/middleware.ts *)

Roles == {"CUSTOMER", "ADMIN"}

(* The number of requests of a run of the authentication handlers. *)
MaxAuthRequests == 3

(* The Authorization headers of the requests.  "ghost" is the id of a user
   the database does not hold. *)
TokenUsers == {"u1", "a1", "ghost"}
IssuedAt == {1, 2}

Tokens ==
    {Token(u, role, iat, "live") : u \in TokenUsers, role \in Roles, iat \in IssuedAt}
        \cup {Token(u, user[u].role, 1, kind) :
                  u \in TokenUsers \cap DOMAIN user, kind \in {"expired", "forged"}}

Header(scheme, token) == [scheme |-> scheme, token |-> token]
NoHeader == Header("", NoToken)

Headers ==
    {NoHeader, Header("Basic", NoToken)} \cup {Header("Bearer", t) : t \in Tokens}

(* prisma.invalidToken.findUnique({where: {token}}) *)
IsInvalidToken(token) == \E row \in invalidToken : row.token = token

(* jwt.verify(token, JWT_SECRET): it throws unless the signature and the
   expiry verify. *)
JwtVerifies(token) == token.kind = "live"

(* auth without its look-up in the revocation list. *)
AuthIgnoringRevocation(header) ==
    IF header.scheme # "Bearer" THEN NoUser
    ELSE IF ~JwtVerifies(header.token) THEN NoUser
    ELSE IF header.token.userId \notin DOMAIN user THEN NoUser
    ELSE AuthUser(header.token.userId, user[header.token.userId].role)

(* auth(req): the two reads are taken at one instant; no handler deletes a
   row of invalidToken or of user or changes a role. *)
auth(header) ==
    IF header.scheme # "Bearer" THEN NoUser
    ELSE IF IsInvalidToken(header.token) THEN NoUser
    ELSE IF ~JwtVerifies(header.token) THEN NoUser
    ELSE IF header.token.userId \notin DOMAIN user THEN NoUser
    ELSE AuthUser(header.token.userId, user[header.token.userId].role)

getCurrentUser(header) == auth(header)

authAdminOnly(header) == auth(header) # NoUser /\ auth(header).role = "ADMIN"

unauthorizedResponse == Response(401, "Unauthorized")

(* The handler of slot r, of operation op, answers at once. *)
Answer(r, op, resp) ==
    req' = [req EXCEPT ![r] = [IdleReq EXCEPT !.op = op, !.pc = "done", !.response = resp]]

----------------------------------------------------------------------------
(* POST /api/cart : add an item to the caller's cart *)

(* cartInputSchema: quantity is z.number().int().min(1) *)
CartInputValid(quantity) == IsInteger(quantity) /\ NumberValue(quantity) >= 1

StartAdd(r, u, p, quantity) ==
    /\ Free(r)
    /\ started < MaxRequests
    /\ started' = started + 1
    /\ IF CartInputValid(quantity)
       THEN req' = [req EXCEPT ![r] = [IdleReq EXCEPT !.op = "add", !.pc = "findProduct",
                                          !.user = u, !.productId = p,
                                          !.quantity = NumberValue(quantity)]]
       ELSE req' = [req EXCEPT ![r] = [IdleReq EXCEPT !.op = "add", !.pc = "done",
                                          !.user = u,
                                          !.response = Response(400, "Invalid input")]]
    /\ UNCHANGED store
    /\ UNCHANGED <<authVars, productReview, taxonomy>>

(* product.stock < quantity *)
AddNotEnoughStock(stock, quantity) == stock < quantity

AddFindProduct(r) ==
    /\ At(r, "add", "findProduct")
    /\ LET p == req[r].productId IN
       IF p \notin DOMAIN product
       THEN Return(r, Response(404, "Product not found"))
       ELSE IF AddNotEnoughStock(product[p].stock, req[r].quantity)
       THEN Return(r, [Response(400, "Not enough stock available")
                         EXCEPT !.availableStock = product[p].stock])
       ELSE req' = [req EXCEPT ![r].pc = "findExisting", ![r].product = product[p]]
    /\ UNCHANGED <<store, started>>
    /\ UNCHANGED <<authVars, productReview, taxonomy>>

(* The second stock check forgetting the quantity already in the cart. *)
AddExceedsStockNewOnly(existingQuantity, quantity, stock) == quantity > stock

(* newTotalQuantity > product.stock *)
AddExceedsStock(existingQuantity, quantity, stock) == existingQuantity + quantity > stock

AddFindExisting(r) ==
    /\ At(r, "add", "findExisting")
    /\ LET rows == {c \in CartOf(req[r].user) : c.productId = req[r].productId} IN
       IF rows = {}
       THEN req' = [req EXCEPT ![r].pc = "create"]
       ELSE \E c \in rows :
              IF AddExceedsStock(c.quantity, req[r].quantity, req[r].product.stock)
              THEN Return(r, [Response(400, "Cannot add this quantity. It exceeds available stock.")
                                EXCEPT !.availableStock = req[r].product.stock])
              ELSE req' = [req EXCEPT ![r].pc = "update", ![r].existingCartItem = c]
    /\ UNCHANGED <<store, started>>
    /\ UNCHANGED <<authVars, productReview, taxonomy>>

AddUpdate(r) ==
    /\ At(r, "add", "update")
    /\ LET id == req[r].existingCartItem.id
           newTotalQuantity == req[r].existingCartItem.quantity + req[r].quantity
       IN  IF \E c \in cartItem : c.id = id
           THEN /\ cartItem' = {IF c.id = id THEN [c EXCEPT !.quantity = newTotalQuantity]
                                             ELSE c : c \in cartItem}
                /\ Return(r, Response(200, "Cart item updated"))
           ELSE /\ cartItem' = cartItem
                /\ Return(r, Response(500, "Failed to add item to cart"))
    /\ UNCHANGED <<product, order, orderItem, invoice, started>>
    /\ UNCHANGED <<authVars, productReview, taxonomy>>

(* The create reserving the units it puts in the cart. *)
AddCreateReservingStock(r) ==
    /\ At(r, "add", "create")
    /\ IF req[r].productId \in DOMAIN product
       THEN /\ cartItem' = cartItem \cup
                  {CartLine(FreshCartItemId, req[r].user, req[r].productId,
                            req[r].quantity)}
            /\ product' = [product EXCEPT ![req[r].productId].stock =
                                              @ - req[r].quantity]
            /\ Return(r, Response(201, "Item added to cart"))
       ELSE /\ cartItem' = cartItem
            /\ product' = product
            /\ Return(r, Response(500, "Failed to add item to cart"))
    /\ UNCHANGED <<order, orderItem, invoice, started>>
    /\ UNCHANGED <<authVars, productReview, taxonomy>>

(* prisma.cartItem.create({data: {userId, productId, quantity}}) *)
AddCreate(r) ==
    /\ At(r, "add", "create")
    /\ IF req[r].productId \in DOMAIN product
       THEN /\ cartItem' = cartItem \cup
                  {CartLine(FreshCartItemId, req[r].user, req[r].productId,
                            req[r].quantity)}
            /\ Return(r, Response(201, "Item added to cart"))
       ELSE /\ cartItem' = cartItem
            /\ Return(r, Response(500, "Failed to add item to cart"))
    /\ UNCHANGED <<product, order, orderItem, invoice, started>>
    /\ UNCHANGED <<authVars, productReview, taxonomy>>

----------------------------------------------------------------------------
(* PUT /api/cart/:id and DELETE /api/cart/:id.  The caller u is the user   *)
(* getCurrentUser resolves from the bearer token; userId is the value the  *)
(* request itself carries, in the JSON body (PUT) or the query (DELETE).   *)

(* The ids a request names: the id of a row, or an id no row has. *)
CartItemIds == {c.id : c \in cartItem} \cup {NoCartItem.id}

(* The userId a request carries; "" is a userId that is missing. *)
UserIdParams == Users \cup {""}

(* !quantity || typeof quantity !== "number" || quantity < 1 *)
UpdateQuantityInvalid(quantity) ==
    ~IsNumber(quantity) \/ quantity.twice = 0 \/ quantity.twice < 2

(* cartItem.userId !== userId *)
NotOwner(c, userId) == c.userId # userId

(* The update without its stock check. *)
UpdateNotEnoughStockUnchecked(stock, quantity) == FALSE

(* cartItem.product.stock < quantity *)
UpdateNotEnoughStock(stock, quantity) == 2 * stock < quantity.twice

(* The handler up to its write: it validates the body, reads the cart item
   with its product (findUnique) and checks the owner and the stock. *)
StartUpdate(r, u, id, userId, quantity) ==
    /\ Free(r)
    /\ started < MaxRequests
    /\ started' = started + 1
    /\ LET rows == {c \in cartItem : c.id = id}
           answer(resp) ==
               req' = [req EXCEPT ![r] = [IdleReq EXCEPT !.op = "update", !.pc = "done",
                                                         !.user = u, !.response = resp]]
       IN  IF userId = ""
           THEN answer(Response(400, "User ID is required"))
           ELSE IF UpdateQuantityInvalid(quantity)
           THEN answer(Response(400, "Quantity must be a positive number"))
           ELSE IF rows = {}
           THEN answer(Response(404, "Cart item not found"))
           ELSE \E c \in rows :
                  IF NotOwner(c, userId)
                  THEN answer(Response(403, "Access denied: This cart item does not belong to the specified user"))
                  ELSE IF UpdateNotEnoughStock(product[c.productId].stock, quantity)
                  THEN answer([Response(400, "Not enough stock available")
                                 EXCEPT !.availableStock = product[c.productId].stock])
                  ELSE req' = [req EXCEPT ![r] = [IdleReq EXCEPT
                                   !.op = "update", !.pc = "update", !.user = u,
                                   !.cartItemId = id, !.userId = userId,
                                   !.body = quantity]]
    /\ UNCHANGED store
    /\ UNCHANGED <<authVars, productReview, taxonomy>>

(* prisma.cartItem.update({where: {id}, data: {quantity}}): it throws when
   no row has the id and when quantity is not an Int, and the catch block
   answers 500. *)
UpdateWrite(r) ==
    /\ At(r, "update", "update")
    /\ LET id == req[r].cartItemId IN
       IF (\E c \in cartItem : c.id = id) /\ IsInteger(req[r].body)
       THEN /\ cartItem' = {IF c.id = id
                             THEN [c EXCEPT !.quantity = NumberValue(req[r].body)]
                             ELSE c : c \in cartItem}
            /\ Return(r, Response(200, ""))
       ELSE /\ cartItem' = cartItem
            /\ Return(r, Response(500, "Failed to update cart item"))
    /\ UNCHANGED <<product, order, orderItem, invoice, started>>
    /\ UNCHANGED <<authVars, productReview, taxonomy>>

(* The handler up to its write: it reads the cart item (findUnique) and
   checks the owner. *)
StartRemove(r, u, id, userId) ==
    /\ Free(r)
    /\ started < MaxRequests
    /\ started' = started + 1
    /\ LET rows == {c \in cartItem : c.id = id}
           answer(resp) ==
               req' = [req EXCEPT ![r] = [IdleReq EXCEPT !.op = "remove", !.pc = "done",
                                                         !.user = u, !.response = resp]]
       IN  IF userId = ""
           THEN answer(Response(400, "User ID is required"))
           ELSE IF rows = {}
           THEN answer(Response(404, "Cart item not found"))
           ELSE \E c \in rows :
                  IF NotOwner(c, userId)
                  THEN answer(Response(403, "Access denied: This cart item does not belong to the specified user"))
                  ELSE req' = [req EXCEPT ![r] = [IdleReq EXCEPT
                                   !.op = "remove", !.pc = "delete", !.user = u,
                                   !.cartItemId = id, !.userId = userId]]
    /\ UNCHANGED store
    /\ UNCHANGED <<authVars, productReview, taxonomy>>

(* prisma.cartItem.delete({where: {id}}): it throws when no row has the id *)
RemoveDelete(r) ==
    /\ At(r, "remove", "delete")
    /\ LET id == req[r].cartItemId IN
       IF \E c \in cartItem : c.id = id
       THEN /\ cartItem' = {c \in cartItem : c.id # id}
            /\ Return(r, Response(200, "Cart item removed successfully"))
       ELSE /\ cartItem' = cartItem
            /\ Return(r, Response(500, "Failed to remove cart item"))
    /\ UNCHANGED <<product, order, orderItem, invoice, started>>
    /\ UNCHANGED <<authVars, productReview, taxonomy>>

----------------------------------------------------------------------------
(* GET /api/cart : the caller's cart with its total *)

(* The handler up to its read: getCurrentUser and the role check. *)
StartList(r, header) ==
    /\ Free(r)
    /\ started < MaxRequests
    /\ started' = started + 1
    /\ LET u == getCurrentUser(header) IN
       IF u = NoUser
       THEN Answer(r, "list", unauthorizedResponse)
       ELSE IF u.role # "CUSTOMER"
       THEN Answer(r, "list",
                   Response(403, "Access denied: only customers can view the cart."))
       ELSE req' = [req EXCEPT ![r] = [IdleReq EXCEPT !.op = "list", !.pc = "findMany",
                                                      !.user = u.id]]
    /\ UNCHANGED <<store, authVars, productReview, taxonomy>>

(* The read without its where clause. *)
ListFindManyOfEveryone(userId) ==
    {[id |-> c.id, userId |-> c.userId, productId |-> c.productId,
      quantity |-> c.quantity, product |-> product[c.productId]] : c \in cartItem}

(* prisma.cartItem.findMany({where: {userId: user.id}, include: {product}}) *)
ListFindMany(userId) ==
    {[id |-> c.id, userId |-> c.userId, productId |-> c.productId,
      quantity |-> c.quantity, product |-> product[c.productId]] : c \in CartOf(userId)}

(* cartItems.reduce((sum, item) => sum + productPrice * quantity, 0) *)
ListTotalPrice(cartItems) ==
    SumOver(cartItems, [item \in cartItems |-> item.product.price * item.quantity])

(* Number(x.toFixed(2)), for x >= 0 given in thousandths of the currency unit
   and answered in thousandths: the nearest multiple of one hundredth. *)
ToFixed2(thousandths) == 10 * ((thousandths + 5) \div 10)

ListFind(r) ==
    /\ At(r, "list", "findMany")
    /\ LET cartItems == ListFindMany(req[r].user) IN
       Return(r, [Response(200, "") EXCEPT
                     !.items = cartItems,
                     !.totalPrice = ToFixed2(1000 * ListTotalPrice(cartItems)),
                     !.itemCount = Cardinality(cartItems)])
    /\ UNCHANGED <<store, started, authVars, productReview, taxonomy>>

----------------------------------------------------------------------------
(* POST /api/checkout : turn the caller's cart into an order *)

StartCheckout(r, u) ==
    /\ Free(r)
    /\ started < MaxRequests
    /\ started' = started + 1
    /\ req' = [req EXCEPT ![r] = [IdleReq EXCEPT !.op = "checkout", !.pc = "findMany",
                                                 !.user = u]]
    /\ UNCHANGED store
    /\ UNCHANGED <<authVars, productReview, taxonomy>>

(* prisma.cartItem.findMany({where: {userId}, include: {product: true}}) *)
FindCartItems(u) ==
    {[id |-> c.id, productId |-> c.productId, quantity |-> c.quantity,
      product |-> product[c.productId]] : c \in CartOf(u)}

(* The checkout without its empty-cart check. *)
CartIsEmptyUnchecked(cartItems) == FALSE

(* cartItems.length === 0 *)
CartIsEmpty(cartItems) == cartItems = {}

(* The total summing the prices without the quantities. *)
TotalAmountOfPrices(cartItems) ==
    SumOver(cartItems, [item \in cartItems |-> item.product.price])

(* cartItems.reduce((acc, item) => acc + item.product.price * item.quantity, 0) *)
TotalAmount(cartItems) ==
    SumOver(cartItems, [item \in cartItems |-> item.product.price * item.quantity])

(* The validation pass comparing the stock with 0 instead of the quantity. *)
InsufficientStockBelowZero(item) == item.product.stock < 0

(* item.product.stock < item.quantity *)
InsufficientStock(item) == item.product.stock < item.quantity

CheckoutLoad(r) ==
    /\ At(r, "checkout", "findMany")
    /\ LET cartItems == FindCartItems(req[r].user) IN
       IF CartIsEmpty(cartItems)
       THEN Return(r, Response(400, "Cart is empty"))
       ELSE IF \E item \in cartItems : InsufficientStock(item)
       THEN \E item \in cartItems :
              /\ InsufficientStock(item)
              /\ Return(r, [Response(400, "Insufficient stock")
                              EXCEPT !.productId = item.product.id,
                                     !.availableStock = item.product.stock,
                                     !.requestedQuantity = item.quantity])
       ELSE req' = [req EXCEPT ![r].pc = "create", ![r].cartItems = cartItems,
                               ![r].totalAmount = TotalAmount(cartItems)]
    /\ UNCHANGED <<store, started>>
    /\ UNCHANGED <<authVars, productReview, taxonomy>>

(* The order items carrying the product's current price instead of the
   price loaded with the cart. *)
OrderItemsCreateCurrentPrice(cartItems, orderId) ==
    {[id |-> <<orderId, item.id>>, orderId |-> orderId, productId |-> item.productId,
      price |-> product[item.productId].price, quantity |-> item.quantity] :
        item \in cartItems}

(* The order row written without its items. *)
OrderItemsCreateNone(cartItems, orderId) == {}

(* items: {create: cartItems.map(item => ({productId, price, quantity}))} *)
OrderItemsCreate(cartItems, orderId) ==
    {[id |-> <<orderId, item.id>>, orderId |-> orderId, productId |-> item.productId,
      price |-> item.product.price, quantity |-> item.quantity] : item \in cartItems}

(* The order row created as already paid. *)
CheckoutCreateOrderPaid(r) ==
    /\ At(r, "checkout", "create")
    /\ LET id == Cardinality(order) + 1 IN
       /\ order' = order \cup {[id |-> id, userId |-> req[r].user,
                                totalAmount |-> req[r].totalAmount,
                                paymentStatus |-> "PAID", paymentMethod |-> "XENDIT"]}
       /\ orderItem' = orderItem \cup OrderItemsCreate(req[r].cartItems, id)
       /\ req' = [req EXCEPT ![r].pc = "invoice", ![r].order = id]
    /\ UNCHANGED <<product, cartItem, invoice, started>>
    /\ UNCHANGED <<authVars, productReview, taxonomy>>

(* prisma.order.create({data: {..., items: {create: [...]}}}): one nested
   write; OrderItem.productId is a foreign key, so the write throws, and the
   catch block answers 500, when a product of the loaded cart is gone. *)
CheckoutCreateOrder(r) ==
    /\ At(r, "checkout", "create")
    /\ IF \A item \in req[r].cartItems : item.productId \in DOMAIN product
       THEN LET id == Cardinality(order) + 1 IN
            /\ order' = order \cup {[id |-> id, userId |-> req[r].user,
                                     totalAmount |-> req[r].totalAmount,
                                     paymentStatus |-> "PENDING",
                                     paymentMethod |-> "XENDIT"]}
            /\ orderItem' = orderItem \cup OrderItemsCreate(req[r].cartItems, id)
            /\ req' = [req EXCEPT ![r].pc = "invoice", ![r].order = id]
       ELSE /\ order' = order
            /\ orderItem' = orderItem
            /\ Return(r, Response(500, "Failed to process checkout"))
    /\ UNCHANGED <<product, cartItem, invoice, started>>
    /\ UNCHANGED <<authVars, productReview, taxonomy>>

(* The invoice requested under one external id for every order. *)
CheckoutInvoiceOkSharedReference(r) ==
    /\ At(r, "checkout", "invoice")
    /\ invoice' = invoice \cup {[externalId |-> 1,
                                 amount |-> req[r].totalAmount, created |-> TRUE]}
    /\ req' = [req EXCEPT ![r].pc = "deleteMany"]
    /\ UNCHANGED <<product, cartItem, order, orderItem, started>>
    /\ UNCHANGED <<authVars, productReview, taxonomy>>

(* createXenditInvoice resolves *)
CheckoutInvoiceOk(r) ==
    /\ At(r, "checkout", "invoice")
    /\ invoice' = invoice \cup {[externalId |-> req[r].order,
                                 amount |-> req[r].totalAmount, created |-> TRUE]}
    /\ req' = [req EXCEPT ![r].pc = "deleteMany"]
    /\ UNCHANGED <<product, cartItem, order, orderItem, started>>
    /\ UNCHANGED <<authVars, productReview, taxonomy>>

(* The catch block clearing the caller's cart before it answers 500. *)
CheckoutInvoiceFailClearsCart(r) ==
    /\ At(r, "checkout", "invoice")
    /\ invoice' = invoice \cup {[externalId |-> req[r].order,
                                 amount |-> req[r].totalAmount, created |-> FALSE]}
    /\ cartItem' = cartItem \ {c \in cartItem : c.userId = req[r].user}
    /\ Return(r, Response(500, "Failed to process checkout"))
    /\ UNCHANGED <<product, order, orderItem, started>>
    /\ UNCHANGED <<authVars, productReview, taxonomy>>

(* The failure of createXenditInvoice swallowed: the checkout goes on as if
   the invoice had been created. *)
CheckoutInvoiceFailSwallowed(r) ==
    /\ At(r, "checkout", "invoice")
    /\ invoice' = invoice \cup {[externalId |-> req[r].order,
                                 amount |-> req[r].totalAmount, created |-> FALSE]}
    /\ req' = [req EXCEPT ![r].pc = "deleteMany"]
    /\ UNCHANGED <<product, cartItem, order, orderItem, started>>
    /\ UNCHANGED <<authVars, productReview, taxonomy>>

(* createXenditInvoice throws: the catch block answers 500 *)
CheckoutInvoiceFail(r) ==
    /\ At(r, "checkout", "invoice")
    /\ invoice' = invoice \cup {[externalId |-> req[r].order,
                                 amount |-> req[r].totalAmount, created |-> FALSE]}
    /\ Return(r, Response(500, "Failed to process checkout"))
    /\ UNCHANGED <<product, cartItem, order, orderItem, started>>
    /\ UNCHANGED <<authVars, productReview, taxonomy>>

(* The clear without its where clause. *)
CartAfterClearOfEveryone(u) == {}

(* prisma.cartItem.deleteMany({where: {userId}}) *)
CartAfterClear(u) == cartItem \ CartOf(u)

CheckoutClear(r) ==
    /\ At(r, "checkout", "deleteMany")
    /\ cartItem' = CartAfterClear(req[r].user)
    /\ Return(r, [Response(200, "") EXCEPT !.orderId = req[r].order,
                                           !.invoiceUrl = req[r].order,
                                           !.totalAmount = req[r].totalAmount])
    /\ UNCHANGED <<product, order, orderItem, invoice, started>>
    /\ UNCHANGED <<authVars, productReview, taxonomy>>

----------------------------------------------------------------------------
(* Administrative catalog requests.  Each handler validates its input,     *)
(* prepares the data of one write and issues it; the data depend on the    *)
(* request alone, and a rejected request changes nothing.                  *)

(* Prices a request carries: JSON numbers with an integral value. *)
JsonPrices == {JsonUndefined, JsonString, JsonNumber(-2), JsonNumber(0), JsonNumber(4)}
FormPrices == {FormNull, <<"a">>, <<"0">>, <<"2">>}

Rejected == [rejected |-> TRUE, price |-> NaN, stock |-> NaN]
Data(price, stock) == [rejected |-> FALSE, price |-> price, stock |-> stock]

(* typeof body.price !== "number" || body.price <= 0 *)
JsonPriceInvalid(price) == ~IsNumber(price) \/ price.twice <= 0

(* typeof body.stock !== "number" || body.stock < 0 || !Number.isInteger(body.stock) *)
JsonStockInvalid(stock) == ~IsNumber(stock) \/ stock.twice < 0 \/ ~IsInteger(stock)

(* isNaN(price) || price <= 0 *)
FormPriceInvalid(price) == price.nan \/ price.value <= 0

(* isNaN(stock) || stock < 0 || !Number.isInteger(stock) *)
FormStockInvalid(stock) == stock.nan \/ stock.value < 0

(* The form-data update without its range check on the parsed stock. *)
FormUpdateStockUnchecked(stock) == FALSE

(* updateData.stock !== undefined && (updateData.stock < 0 || !Number.isInteger(...)) *)
FormUpdateStockInvalid(stock) == stock.value < 0

(* POST /api/products, JSON body: the validated data of product.create *)
JsonCreateData(price, stock) ==
    IF price = JsonUndefined \/ stock = JsonUndefined
       \/ JsonPriceInvalid(price) \/ JsonStockInvalid(stock)
    THEN Rejected
    ELSE Data(Num(NumberValue(price)), Num(NumberValue(stock)))

(* POST /api/products, multipart/form-data body *)
FormCreateData(price, stock) ==
    IF ~Truthy(price) \/ ~Truthy(stock)
       \/ FormPriceInvalid(ParseFloat(price)) \/ FormStockInvalid(ParseInt(stock))
    THEN Rejected
    ELSE Data(ParseFloat(price), ParseInt(stock))

(* PUT /api/products/:id, JSON body: a field that is undefined is left as
   it is (NaN here). *)
JsonUpdateData(price, stock) ==
    IF \/ (price # JsonUndefined /\ JsonPriceInvalid(price))
       \/ (stock # JsonUndefined /\ JsonStockInvalid(stock))
    THEN Rejected
    ELSE Data(IF price = JsonUndefined THEN NaN ELSE Num(NumberValue(price)),
              IF stock = JsonUndefined THEN NaN ELSE Num(NumberValue(stock)))

(* PUT /api/products/:id, multipart/form-data body: updateData *)
FormUpdateData(price, stock) ==
    IF \/ (Truthy(price) /\ ParseFloat(price).nan)
       \/ (Truthy(stock) /\ ParseInt(stock).nan)
       \/ (Truthy(price) /\ ParseFloat(price).value <= 0)
       \/ (Truthy(stock) /\ FormUpdateStockInvalid(ParseInt(stock)))
    THEN Rejected
    ELSE Data(IF Truthy(price) THEN ParseFloat(price) ELSE NaN,
              IF Truthy(stock) THEN ParseInt(stock) ELSE NaN)

(* What the requests of each kind make the handlers write.  An update
   request carries a price or a stock. *)
JsonCreateDatas ==
    {JsonCreateData(price, stock) : price \in JsonPrices, stock \in JsonValues(MaxStock)}
FormCreateDatas ==
    {FormCreateData(price, stock) : price \in FormPrices, stock \in FormFields}
JsonUpdateDatas ==
    {JsonUpdateData(price, JsonUndefined) : price \in JsonPrices}
        \cup {JsonUpdateData(JsonUndefined, stock) : stock \in JsonValues(MaxStock)}
FormUpdateDatas ==
    {FormUpdateData(price, FormNull) : price \in FormPrices}
        \cup {FormUpdateData(FormNull, stock) : stock \in FormFields}

InBounds(data) == data.stock.nan \/ data.stock.value <= MaxStock

(* prisma.product.create({data}), or the 400 response of a rejected request *)
CreateProduct(id, data) ==
    /\ id \notin DOMAIN product
    /\ InBounds(data)
    /\ IF data.rejected
       THEN UNCHANGED <<product, started>>
       ELSE /\ product' = [p \in DOMAIN product \cup {id} |->
                             IF p = id
                             THEN [id |-> id, price |-> data.price.value,
                                   stock |-> data.stock.value]
                             ELSE product[p]]
            /\ started' = started + 1
    /\ UNCHANGED <<cartItem, order, orderItem, invoice, req>>
    /\ UNCHANGED <<authVars, productReview, taxonomy>>

(* The product update carrying a new price over to the order items of the
   product. *)
UpdateProductRepricingOrders(id, data) ==
    /\ InBounds(data)
    /\ IF id \notin DOMAIN product \/ data.rejected
       THEN UNCHANGED <<product, orderItem, started>>
       ELSE /\ product' = [product EXCEPT
                   ![id].price = IF data.price.nan THEN @ ELSE data.price.value,
                   ![id].stock = IF data.stock.nan THEN @ ELSE data.stock.value]
            /\ orderItem' = {IF i.productId = id /\ ~data.price.nan
                              THEN [i EXCEPT !.price = data.price.value]
                              ELSE i : i \in orderItem}
            /\ started' = started + 1
    /\ UNCHANGED <<cartItem, order, invoice, req>>
    /\ UNCHANGED <<authVars, productReview, taxonomy>>

(* prisma.product.update({where: {id}, data}) once findUnique has found the
   product, or the 404 / 400 response *)
UpdateProduct(id, data) ==
    /\ InBounds(data)
    /\ IF id \notin DOMAIN product \/ data.rejected
       THEN UNCHANGED <<product, started>>
       ELSE /\ product' = [product EXCEPT
                   ![id].price = IF data.price.nan THEN @ ELSE data.price.value,
                   ![id].stock = IF data.stock.nan THEN @ ELSE data.stock.value]
            /\ started' = started + 1
    /\ UNCHANGED <<cartItem, order, orderItem, invoice, req>>
    /\ UNCHANGED <<authVars, productReview, taxonomy>>

ProductCreateJson(id, data) ==
    /\ ~Responding /\ started < MaxRequests
    /\ CreateProduct(id, data)

ProductCreateForm(id, data) ==
    /\ ~Responding /\ started < MaxRequests
    /\ CreateProduct(id, data)

ProductUpdateJson(id, data) ==
    /\ ~Responding /\ started < MaxRequests
    /\ UpdateProduct(id, data)

ProductUpdateForm(id, data) ==
    /\ ~Responding /\ started < MaxRequests
    /\ UpdateProduct(id, data)

----------------------------------------------------------------------------
Next ==
    \/ \E r \in Slots, u \in Users, p \in ProductIds, q \in JsonValues(MaxQty) :
           StartAdd(r, u, p, q)
    \/ \E r \in Slots : AddFindProduct(r)
    \/ \E r \in Slots : AddFindExisting(r)
    \/ \E r \in Slots : AddUpdate(r)
    \/ \E r \in Slots : AddCreate(r)
    \/ \E r \in Slots, u \in Users : StartCheckout(r, u)
    \/ \E r \in Slots : CheckoutLoad(r)
    \/ \E r \in Slots : CheckoutCreateOrder(r)
    \/ \E r \in Slots : CheckoutInvoiceOk(r)
    \/ \E r \in Slots : CheckoutInvoiceFail(r)
    \/ \E r \in Slots : CheckoutClear(r)
    \/ \E r \in Slots : Respond(r)
    \/ \E id \in ProductIds, data \in JsonCreateDatas : ProductCreateJson(id, data)
    \/ \E id \in ProductIds, data \in FormCreateDatas : ProductCreateForm(id, data)
    \/ \E id \in ProductIds, data \in JsonUpdateDatas : ProductUpdateJson(id, data)
    \/ \E id \in ProductIds, data \in FormUpdateDatas : ProductUpdateForm(id, data)

Spec == Init /\ [][Next]_vars

(* The customers' requests alone: no administrator changes the catalog. *)
NextCustomers ==
    \/ \E r \in Slots, u \in Users, p \in ProductIds, q \in JsonValues(MaxQty) :
           StartAdd(r, u, p, q)
    \/ \E r \in Slots : AddFindProduct(r)
    \/ \E r \in Slots : AddFindExisting(r)
    \/ \E r \in Slots : AddUpdate(r)
    \/ \E r \in Slots : AddCreate(r)
    \/ \E r \in Slots, u \in Users : StartCheckout(r, u)
    \/ \E r \in Slots : CheckoutLoad(r)
    \/ \E r \in Slots : CheckoutCreateOrder(r)
    \/ \E r \in Slots : CheckoutInvoiceOk(r)
    \/ \E r \in Slots : CheckoutInvoiceFail(r)
    \/ \E r \in Slots : CheckoutClear(r)
    \/ \E r \in Slots : Respond(r)

SpecCustomers == Init /\ [][NextCustomers]_vars

(* The cart endpoints alone: POST /api/cart, PUT and DELETE /api/cart/:id. *)
NextCart ==
    \/ \E r \in Slots, u \in Users, p \in ProductIds, q \in JsonValues(MaxQty) :
           StartAdd(r, u, p, q)
    \/ \E r \in Slots : AddFindProduct(r)
    \/ \E r \in Slots : AddFindExisting(r)
    \/ \E r \in Slots : AddUpdate(r)
    \/ \E r \in Slots : AddCreate(r)
    \/ \E r \in Slots, u \in Users, id \in CartItemIds, userId \in UserIdParams,
          q \in JsonValues(MaxQty) : StartUpdate(r, u, id, userId, q)
    \/ \E r \in Slots : UpdateWrite(r)
    \/ \E r \in Slots, u \in Users, id \in CartItemIds, userId \in UserIdParams :
           StartRemove(r, u, id, userId)
    \/ \E r \in Slots : RemoveDelete(r)
    \/ \E r \in Slots, header \in Headers : StartList(r, header)
    \/ \E r \in Slots : ListFind(r)
    \/ \E r \in Slots : Respond(r)

SpecCart == Init /\ [][NextCart]_vars

(* The requests on a database that holds an order of an earlier checkout,
   which the payment gateway may have settled: its paymentStatus is a value
   of the PaymentStatus enum, PENDING as created or a settled one.  Both
   customers hold a cart line. *)
PaymentStatus == {"PENDING", "PAID", "FAILED"}

EarlierOrder(status) ==
    [id |-> 1, userId |-> "u2", totalAmount |-> 2,
     paymentStatus |-> status, paymentMethod |-> "XENDIT"]

EarlierOrderItem ==
    [id |-> <<1, 0>>, orderId |-> 1, productId |-> "A", price |-> 2, quantity |-> 1]

InitSettled ==
    /\ product = [p \in DOMAIN InitStock |->
                    [id |-> p, price |-> InitPrice[p], stock |-> InitStock[p]]]
    /\ cartItem = {CartLine(1, "u1", "A", 1), CartLine(2, "u2", "A", 1)}
    /\ \E status \in PaymentStatus : order = {EarlierOrder(status)}
    /\ orderItem = {EarlierOrderItem}
    /\ invoice = {[externalId |-> 1, amount |-> 2, created |-> TRUE]}
    /\ req = [r \in Slots |-> IdleReq]
    /\ started = 0
    /\ user = InitUser
    /\ invalidToken = {}
    /\ productReview = InitReviews
    /\ brand = InitBrand
    /\ category = InitCategory

SpecSettled == InitSettled /\ [][Next]_vars

----------------------------------------------------------------------------
(* Authentication: login, /auth/me and logout.                             *)

(* POST /api/auth/login *)
Emails == DOMAIN InitUser \cup {"", "nobody"}
Passwords == {"", "secret", "wrong"}

Login(r, email, password, iat) ==
    /\ Free(r)
    /\ started < MaxAuthRequests
    /\ started' = started + 1
    /\ IF email = "" \/ password = ""
       THEN Answer(r, "login", Response(400, "Email and password are required"))
       ELSE IF ~\E id \in DOMAIN user : user[id].email = email
       THEN Answer(r, "login", Response(401, "Invalid email or password"))
       ELSE \E id \in DOMAIN user :
              /\ user[id].email = email
              /\ IF user[id].password # password
                 THEN Answer(r, "login", Response(401, "Invalid email or password"))
                 ELSE Answer(r, "login",
                             [Response(200, "") EXCEPT
                                 !.user = AuthUser(id, user[id].role),
                                 !.accessToken = Token(id, user[id].role, iat, "live")])
    /\ UNCHANGED <<store, authVars, productReview, taxonomy>>

(* GET /api/auth/me *)
Me(r, header) ==
    /\ Free(r)
    /\ started < MaxAuthRequests
    /\ started' = started + 1
    /\ LET u == getCurrentUser(header) IN
       req' = [req EXCEPT ![r] =
                  [IdleReq EXCEPT !.op = "me", !.pc = "done", !.token = header.token,
                                  !.response = IF u = NoUser
                                               THEN unauthorizedResponse
                                               ELSE [Response(200, "") EXCEPT !.user = u]]]
    /\ UNCHANGED <<store, authVars, productReview, taxonomy>>

(* POST /api/auth/logout, up to its write *)
StartLogout(r, header) ==
    /\ Free(r)
    /\ started < MaxAuthRequests
    /\ started' = started + 1
    /\ LET u == getCurrentUser(header) IN
       IF u = NoUser
       THEN Answer(r, "logout", Response(200, "Already logged out"))
       ELSE req' = [req EXCEPT ![r] = [IdleReq EXCEPT !.op = "logout", !.pc = "create",
                                                      !.user = u.id,
                                                      !.token = header.token]]
    /\ UNCHANGED <<store, authVars, productReview, taxonomy>>

(* The logout that answers without writing the token to the list. *)
LogoutCreateNothing(r) ==
    /\ At(r, "logout", "create")
    /\ invalidToken' = invalidToken
    /\ Return(r, Response(200, "Logged out successfully"))
    /\ UNCHANGED <<store, started, user, productReview, taxonomy>>

(* prisma.invalidToken.create({data: {token, userId, expiresAt}}): token is
   @unique, so the create throws when the token is in the list already. *)
LogoutCreate(r) ==
    /\ At(r, "logout", "create")
    /\ IF IsInvalidToken(req[r].token)
       THEN /\ invalidToken' = invalidToken
            /\ Return(r, Response(500, "Failed to logout"))
       ELSE /\ invalidToken' = invalidToken \cup
                                   {[token |-> req[r].token, userId |-> req[r].user]}
            /\ Return(r, Response(200, "Logged out successfully"))
    /\ UNCHANGED <<store, started, user, productReview, taxonomy>>

NextAuth ==
    \/ \E r \in Slots, email \in Emails, password \in Passwords, iat \in IssuedAt :
           Login(r, email, password, iat)
    \/ \E r \in Slots, header \in Headers : Me(r, header)
    \/ \E r \in Slots, header \in Headers : StartLogout(r, header)
    \/ \E r \in Slots : LogoutCreate(r)
    \/ \E r \in Slots : Respond(r)

SpecAuth == Init /\ [][NextAuth]_vars

----------------------------------------------------------------------------
(* DELETE /api/products/:id.  Three handlers exist: the JSON route         *)
(* ("json"), the form-data route ("form"), which reads the product with    *)
(* its reviews, cart items and order items in one query, and the route     *)
(* that calls authAdminOnly alone ("adminOnly").  CartItem.productId,      *)
(* OrderItem.productId and ProductReview.productId are foreign keys with   *)
(* the default referential action: deleting a referenced product throws.   *)

DeleteVariants == {"json", "form", "adminOnly"}

(* The headers of the delete requests explored with the cart and checkout
   requests: none, a customer's token and an administrator's token. *)
DeleteHeaders ==
    {NoHeader} \cup {Header("Bearer", Token(u, InitUser[u].role, 1, "live")) :
                        u \in {"u1", "a1"}}

(* The handler up to its second query: authentication, authorization and
   prisma.product.findUnique. *)
StartDelete(r, header, id, variant) ==
    /\ Free(r)
    /\ started < MaxRequests
    /\ started' = started + 1
    /\ IF variant # "adminOnly" /\ getCurrentUser(header) = NoUser
       THEN Answer(r, "delete", unauthorizedResponse)
       ELSE IF ~authAdminOnly(header)
       THEN Answer(r, "delete", Response(403, "Unauthorized - Admin access required"))
       ELSE IF id \notin DOMAIN product
       THEN Answer(r, "delete", Response(404, "Product not found"))
       ELSE IF variant = "form"
       THEN IF \E i \in orderItem : i.productId = id
            THEN Answer(r, "delete",
                        Response(400, "Cannot delete product with existing orders"))
            ELSE req' = [req EXCEPT ![r] =
                            [IdleReq EXCEPT !.op = "delete", !.pc = "transaction",
                                            !.user = getCurrentUser(header).id,
                                            !.productId = id, !.variant = variant,
                                            !.cartItems =
                                                {c \in cartItem : c.productId = id},
                                            !.reviews =
                                                {v \in productReview : v.productId = id}]]
       ELSE req' = [req EXCEPT ![r] =
                       [IdleReq EXCEPT !.op = "delete", !.pc = "findFirst",
                                       !.user = getCurrentUser(header).id,
                                       !.productId = id, !.variant = variant]]
    /\ UNCHANGED <<store, authVars, productReview, taxonomy>>

(* prisma.orderItem.findFirst({where: {productId: id}}) *)
DeleteFindFirst(r) ==
    /\ At(r, "delete", "findFirst")
    /\ IF \E i \in orderItem : i.productId = req[r].productId
       THEN Return(r, Response(400, "Cannot delete product with existing orders"))
       ELSE req' = [req EXCEPT ![r].pc = "transaction"]
    /\ UNCHANGED <<store, started, authVars, productReview, taxonomy>>

(* The cart items and the reviews the transaction leaves: the form-data
   route deletes them only when the product it read had some. *)
CartAfterDelete(r) ==
    IF req[r].variant = "form" /\ req[r].cartItems = {}
    THEN cartItem
    ELSE {c \in cartItem : c.productId # req[r].productId}

ReviewsAfterDelete(r) ==
    IF req[r].variant = "form" /\ req[r].reviews = {}
    THEN productReview
    ELSE {v \in productReview : v.productId # req[r].productId}

(* product.delete succeeds: the product exists and no row is left that
   references it. *)
DeleteAllowed(r) ==
    /\ req[r].productId \in DOMAIN product
    /\ \A c \in CartAfterDelete(r) : c.productId # req[r].productId
    /\ \A v \in ReviewsAfterDelete(r) : v.productId # req[r].productId
    /\ \A i \in orderItem : i.productId # req[r].productId

(* Another request is about to insert a row that references product p: its
   insert and the transaction conflict, and either one can be the one that
   fails. *)
PendingWriteOn(r, p) ==
    \E q \in Slots \ {r} :
        \/ req[q].op = "add" /\ req[q].pc = "create" /\ req[q].productId = p
        \/ /\ req[q].op = "checkout" /\ req[q].pc = "create"
           /\ \E item \in req[q].cartItems : item.productId = p

(* The transaction rolled back: the catch block answers 500. *)
DeleteRollback(r) ==
    /\ UNCHANGED <<product, cartItem, productReview>>
    /\ Return(r, Response(500, "Failed to delete product"))

(* The transaction deleting the product whatever references it. *)
DeleteTransactionUnconstrained(r) ==
    /\ At(r, "delete", "transaction")
    /\ IF req[r].productId \in DOMAIN product
       THEN /\ cartItem' = CartAfterDelete(r)
            /\ productReview' = ReviewsAfterDelete(r)
            /\ product' = [p \in DOMAIN product \ {req[r].productId} |-> product[p]]
            /\ Return(r, Response(200, "Product deleted successfully"))
       ELSE DeleteRollback(r)
    /\ UNCHANGED <<order, orderItem, invoice, started, authVars, taxonomy>>

(* prisma.$transaction([productReview.deleteMany, cartItem.deleteMany,
   product.delete]): all three writes or none. *)
DeleteTransaction(r) ==
    /\ At(r, "delete", "transaction")
    /\ IF DeleteAllowed(r)
       THEN \/ /\ cartItem' = CartAfterDelete(r)
               /\ productReview' = ReviewsAfterDelete(r)
               /\ product' = [p \in DOMAIN product \ {req[r].productId} |-> product[p]]
               /\ Return(r, Response(200, "Product deleted successfully"))
            \/ /\ PendingWriteOn(r, req[r].productId)
               /\ DeleteRollback(r)
       ELSE DeleteRollback(r)
    /\ UNCHANGED <<order, orderItem, invoice, started, authVars, taxonomy>>

NextDelete ==
    \/ \E r \in Slots, u \in Users, p \in ProductIds, q \in JsonValues(MaxQty) :
           StartAdd(r, u, p, q)
    \/ \E r \in Slots : AddFindProduct(r)
    \/ \E r \in Slots : AddFindExisting(r)
    \/ \E r \in Slots : AddUpdate(r)
    \/ \E r \in Slots : AddCreate(r)
    \/ \E r \in Slots, u \in Users : StartCheckout(r, u)
    \/ \E r \in Slots : CheckoutLoad(r)
    \/ \E r \in Slots : CheckoutCreateOrder(r)
    \/ \E r \in Slots : CheckoutInvoiceOk(r)
    \/ \E r \in Slots : CheckoutInvoiceFail(r)
    \/ \E r \in Slots : CheckoutClear(r)
    \/ \E r \in Slots, header \in DeleteHeaders, id \in ProductIds,
          variant \in DeleteVariants : StartDelete(r, header, id, variant)
    \/ \E r \in Slots : DeleteFindFirst(r)
    \/ \E r \in Slots : DeleteTransaction(r)
    \/ \E r \in Slots : Respond(r)

SpecDelete == Init /\ [][NextDelete]_vars

----------------------------------------------------------------------------
(* Administrative requests from their first line: product create and        *)
(* update, brand and category create, update and delete, admin creation.    *)

(* The headers of the administrative requests: none, a customer's token, a
   customer's token that records the role ADMIN, an administrator's token
   and an administrator's expired token. *)
AdminHeaders ==
    {NoHeader,
     Header("Bearer", Token("u1", "CUSTOMER", 1, "live")),
     Header("Bearer", Token("u1", "ADMIN", 1, "live")),
     Header("Bearer", Token("a1", "ADMIN", 1, "live")),
     Header("Bearer", Token("a1", "ADMIN", 1, "expired"))}

(* The bodies of the product requests explored with them: one the handler
   rejects and one it writes. *)
AdminCreateDatas ==
    {JsonCreateData(price, JsonNumber(2)) : price \in {JsonNumber(0), JsonNumber(4)}}
AdminUpdateDatas ==
    {JsonUpdateData(price, JsonUndefined) : price \in {JsonNumber(0), JsonNumber(4)}}

(* The ids a brand or category request names: a row's, or one no row has. *)
RowIds(table) == IF table = "brand" THEN {"b1", "b2", "none"} ELSE {"c1", "c2", "none"}

(* The gate letting every authenticated user through. *)
AdminGateAnyUser(header, adminOnly) ==
    IF getCurrentUser(header) = NoUser
    THEN unauthorizedResponse
    ELSE NoResponse

(* The response that turns the caller away, or NoResponse for an
   administrator.  Handlers that call authAdminOnly alone answer 403 to a
   request without a valid token; the others answer 401. *)
AdminGate(header, adminOnly) ==
    IF ~adminOnly /\ getCurrentUser(header) = NoUser
    THEN unauthorizedResponse
    ELSE IF ~authAdminOnly(header)
    THEN Response(403, "Unauthorized - Admin access required")
    ELSE NoResponse

(* The request of slot r is turned away with resp. *)
Reject(r, op, header, resp) ==
    req' = [req EXCEPT ![r] = [IdleReq EXCEPT !.op = op, !.pc = "done",
                                              !.token = header.token,
                                              !.response = resp]]

(* The request of slot r, of the caller the header authenticates, goes on
   to step pc of operation op with the given locals. *)
Start(r, header, op, pc, locals) ==
    req' = [req EXCEPT ![r] = [locals EXCEPT !.op = op, !.pc = pc,
                                             !.user = getCurrentUser(header).id]]

(* POST /api/products up to its write *)
StartProductCreate(r, header, data) ==
    /\ Free(r)
    /\ started < MaxRequests
    /\ started' = started + 1
    /\ InBounds(data)
    /\ LET gate == AdminGate(header, TRUE) IN
       IF gate # NoResponse
       THEN Reject(r, "productCreate", header, gate)
       ELSE IF data.rejected
       THEN Answer(r, "productCreate", Response(400, "Invalid product"))
       ELSE IF BrandOfProducts \notin {b.id : b \in brand}
       THEN Answer(r, "productCreate", Response(400, "Invalid brand ID"))
       ELSE IF CategoryOfProducts \notin {c.id : c \in category}
       THEN Answer(r, "productCreate", Response(400, "Invalid category ID"))
       ELSE Start(r, header, "productCreate", "create", [IdleReq EXCEPT !.data = data])
    /\ UNCHANGED <<store, authVars, productReview, taxonomy>>

(* prisma.product.create({data}); brandId and categoryId are foreign keys *)
ProductCreateWrite(r) ==
    /\ At(r, "productCreate", "create")
    /\ IF /\ BrandOfProducts \in {b.id : b \in brand}
          /\ CategoryOfProducts \in {c.id : c \in category}
       THEN \E id \in ProductIds \ DOMAIN product :
              /\ product' = [p \in DOMAIN product \cup {id} |->
                               IF p = id
                               THEN [id |-> id, price |-> req[r].data.price.value,
                                     stock |-> req[r].data.stock.value]
                               ELSE product[p]]
              /\ Return(r, Response(201, ""))
       ELSE /\ product' = product
            /\ Return(r, Response(500, "Failed to create product"))
    /\ UNCHANGED <<cartItem, order, orderItem, invoice, started>>
    /\ UNCHANGED <<authVars, productReview, taxonomy>>

(* PUT /api/products/:id up to its write *)
StartProductUpdate(r, header, id, data) ==
    /\ Free(r)
    /\ started < MaxRequests
    /\ started' = started + 1
    /\ InBounds(data)
    /\ LET gate == AdminGate(header, FALSE) IN
       IF gate # NoResponse
       THEN Reject(r, "productUpdate", header, gate)
       ELSE IF id \notin DOMAIN product
       THEN Answer(r, "productUpdate", Response(404, "Product not found"))
       ELSE IF data.rejected
       THEN Answer(r, "productUpdate", Response(400, "Invalid product"))
       ELSE Start(r, header, "productUpdate", "update",
                  [IdleReq EXCEPT !.productId = id, !.data = data])
    /\ UNCHANGED <<store, authVars, productReview, taxonomy>>

(* prisma.product.update({where: {id}, data}): it throws when the product is
   gone *)
ProductUpdateWrite(r) ==
    /\ At(r, "productUpdate", "update")
    /\ LET id == req[r].productId
           data == req[r].data
       IN  IF id \in DOMAIN product
           THEN /\ product' = [product EXCEPT
                       ![id].price = IF data.price.nan THEN @ ELSE data.price.value,
                       ![id].stock = IF data.stock.nan THEN @ ELSE data.stock.value]
                /\ Return(r, Response(200, ""))
           ELSE /\ product' = product
                /\ Return(r, Response(500, "Failed to update product"))
    /\ UNCHANGED <<cartItem, order, orderItem, invoice, started>>
    /\ UNCHANGED <<authVars, productReview, taxonomy>>

(* Brands and categories have the same handlers; table says which. *)
Tables == {"brand", "category"}
Rows(table) == IF table = "brand" THEN brand ELSE category
ClassOfProducts(table) == IF table = "brand" THEN BrandOfProducts ELSE CategoryOfProducts

(* The table of the request holds rows', the other table is left alone. *)
Write(table, rows) ==
    IF table = "brand"
    THEN brand' = rows /\ category' = category
    ELSE category' = rows /\ brand' = brand

(* The names a request carries, "" for a name that is missing, and the ids
   created rows get. *)
Names == {"", "n1", "n3"}
FreshIds(table) == IF table = "brand" THEN <<"b3", "b4", "b5">> ELSE <<"c3", "c4", "c5">>
FreshId(table) ==
    LET ids == FreshIds(table)
        n == CHOOSE n \in 1 .. Len(ids) :
                 /\ ids[n] \notin {row.id : row \in Rows(table)}
                 /\ \A m \in 1 .. (n - 1) : ids[m] \in {row.id : row \in Rows(table)}
    IN  ids[n]

(* POST /api/brands, POST /api/categories up to the write *)
StartTaxonomyCreate(r, header, table, name) ==
    /\ Free(r)
    /\ started < MaxRequests
    /\ started' = started + 1
    /\ LET gate == AdminGate(header, TRUE) IN
       IF gate # NoResponse
       THEN Reject(r, "taxonomyCreate", header, gate)
       ELSE IF name = ""
       THEN Answer(r, "taxonomyCreate", Response(400, "Brand name is required"))
       ELSE Start(r, header, "taxonomyCreate", "create",
                  [IdleReq EXCEPT !.table = table, !.name = name])
    /\ UNCHANGED <<store, authVars, productReview, taxonomy>>

(* prisma.brand.create({data: {name}}): name is @unique *)
TaxonomyCreate(r) ==
    /\ At(r, "taxonomyCreate", "create")
    /\ LET table == req[r].table IN
       IF \E row \in Rows(table) : row.name = req[r].name
       THEN /\ UNCHANGED taxonomy
            /\ Return(r, Response(500, "Failed to create"))
       ELSE /\ Write(table, Rows(table) \cup {Named(FreshId(table), req[r].name)})
            /\ Return(r, Response(201, ""))
    /\ UNCHANGED <<store, started, authVars, productReview>>

(* PUT /api/brands/:id, PUT /api/categories/:id up to the write *)
StartTaxonomyUpdate(r, header, table, id, name) ==
    /\ Free(r)
    /\ started < MaxRequests
    /\ started' = started + 1
    /\ LET gate == AdminGate(header, TRUE) IN
       IF gate # NoResponse
       THEN Reject(r, "taxonomyUpdate", header, gate)
       ELSE IF ~\E row \in Rows(table) : row.id = id
       THEN Answer(r, "taxonomyUpdate", Response(404, "not found"))
       ELSE IF name = ""
       THEN Answer(r, "taxonomyUpdate", Response(400, "Brand name is required"))
       ELSE Start(r, header, "taxonomyUpdate", "update",
                  [IdleReq EXCEPT !.table = table, !.userId = id, !.name = name])
    /\ UNCHANGED <<store, authVars, productReview, taxonomy>>

(* prisma.brand.update({where: {id}, data: {name}}): it throws when the row
   is gone or another row has the name *)
TaxonomyUpdate(r) ==
    /\ At(r, "taxonomyUpdate", "update")
    /\ LET table == req[r].table
           id == req[r].userId
       IN  IF /\ \E row \in Rows(table) : row.id = id
              /\ \A row \in Rows(table) : row.name = req[r].name => row.id = id
           THEN /\ Write(table, {IF row.id = id THEN Named(id, req[r].name) ELSE row :
                                    row \in Rows(table)})
                /\ Return(r, Response(200, ""))
           ELSE /\ UNCHANGED taxonomy
                /\ Return(r, Response(500, "Failed to update"))
    /\ UNCHANGED <<store, started, authVars, productReview>>

(* product.findMany({where: {brandId: id}}).length > 0 *)
HasProducts(table, id) == id = ClassOfProducts(table) /\ DOMAIN product # {}

(* DELETE /api/brands/:id, DELETE /api/categories/:id up to the write *)
StartTaxonomyDelete(r, header, table, id) ==
    /\ Free(r)
    /\ started < MaxRequests
    /\ started' = started + 1
    /\ LET gate == AdminGate(header, TRUE) IN
       IF gate # NoResponse
       THEN Reject(r, "taxonomyDelete", header, gate)
       ELSE IF ~\E row \in Rows(table) : row.id = id
       THEN Answer(r, "taxonomyDelete", Response(404, "not found"))
       ELSE IF HasProducts(table, id)
       THEN Answer(r, "taxonomyDelete", Response(400, "has products"))
       ELSE Start(r, header, "taxonomyDelete", "delete",
                  [IdleReq EXCEPT !.table = table, !.userId = id])
    /\ UNCHANGED <<store, authVars, productReview, taxonomy>>

(* prisma.brand.delete({where: {id}}): it throws when the row is gone or a
   product references it *)
TaxonomyDelete(r) ==
    /\ At(r, "taxonomyDelete", "delete")
    /\ LET table == req[r].table
           id == req[r].userId
       IN  IF (\E row \in Rows(table) : row.id = id) /\ ~HasProducts(table, id)
           THEN /\ Write(table, {row \in Rows(table) : row.id # id})
                /\ Return(r, Response(200, "deleted successfully"))
           ELSE /\ UNCHANGED taxonomy
                /\ Return(r, Response(500, "Failed to delete"))
    /\ UNCHANGED <<store, started, authVars, productReview>>

(* POST /api/auth/admin.  A password is known by its length; an address
   either matches the handler's pattern or does not. *)
AdminEmails == {"", "bad", "a1", "a2"}
AdminPasswords == {"", "short", "longenough"}
PasswordLength(password) ==
    IF password = "" THEN 0 ELSE IF password = "short" THEN 5 ELSE 10
EmailRegexMatches(email) == email \notin {"", "bad"}
MinAdminPasswordLength == 8

StartAdminCreate(r, header, email, password) ==
    /\ Free(r)
    /\ started < MaxRequests
    /\ started' = started + 1
    /\ LET gate == AdminGate(header, FALSE) IN
       IF gate # NoResponse
       THEN Reject(r, "adminCreate", header, gate)
       ELSE IF email = "" \/ password = ""
       THEN Answer(r, "adminCreate",
                   Response(400, "Name, email, and password are required"))
       ELSE IF ~EmailRegexMatches(email)
       THEN Answer(r, "adminCreate",
                   Response(400, "Please provide a valid email address"))
       ELSE IF PasswordLength(password) < MinAdminPasswordLength
       THEN Answer(r, "adminCreate",
                   Response(400, "Admin password must be at least 8 characters long"))
       ELSE IF \E id \in DOMAIN user : user[id].email = email
       THEN Answer(r, "adminCreate", Response(409, "Email already registered"))
       ELSE Start(r, header, "adminCreate", "create",
                  [IdleReq EXCEPT !.email = email, !.password = password])
    /\ UNCHANGED <<store, authVars, productReview, taxonomy>>

(* prisma.user.create({data: {name, email, password, role: ADMIN}}): email is
   @unique *)
AdminCreate(r) ==
    /\ At(r, "adminCreate", "create")
    /\ LET email == req[r].email IN
       IF \E id \in DOMAIN user : user[id].email = email
       THEN /\ user' = user
            /\ Return(r, Response(500, "Failed to create admin"))
       ELSE /\ user' = [id \in DOMAIN user \cup {email} |->
                           IF id = email
                           THEN [id |-> email, email |-> email,
                                 password |-> req[r].password, role |-> "ADMIN"]
                           ELSE user[id]]
            /\ Return(r, [Response(201, "") EXCEPT !.user = AuthUser(email, "ADMIN")])
    /\ UNCHANGED <<store, started, invalidToken, productReview, taxonomy>>

NextAdmin ==
    \/ \E r \in Slots, header \in AdminHeaders, data \in AdminCreateDatas :
           StartProductCreate(r, header, data)
    \/ \E r \in Slots : ProductCreateWrite(r)
    \/ \E r \in Slots, header \in AdminHeaders, id \in ProductIds,
          data \in AdminUpdateDatas : StartProductUpdate(r, header, id, data)
    \/ \E r \in Slots : ProductUpdateWrite(r)
    \/ \E r \in Slots, header \in AdminHeaders, id \in ProductIds,
          variant \in DeleteVariants : StartDelete(r, header, id, variant)
    \/ \E r \in Slots : DeleteFindFirst(r)
    \/ \E r \in Slots : DeleteTransaction(r)
    \/ \E r \in Slots, header \in AdminHeaders, table \in Tables, name \in Names :
           StartTaxonomyCreate(r, header, table, name)
    \/ \E r \in Slots : TaxonomyCreate(r)
    \/ \E r \in Slots, header \in AdminHeaders, table \in Tables, name \in Names :
           \E id \in RowIds(table) : StartTaxonomyUpdate(r, header, table, id, name)
    \/ \E r \in Slots : TaxonomyUpdate(r)
    \/ \E r \in Slots, header \in AdminHeaders, table \in Tables :
           \E id \in RowIds(table) : StartTaxonomyDelete(r, header, table, id)
    \/ \E r \in Slots : TaxonomyDelete(r)
    \/ \E r \in Slots, header \in AdminHeaders, email \in AdminEmails,
          password \in AdminPasswords : StartAdminCreate(r, header, email, password)
    \/ \E r \in Slots : AdminCreate(r)
    \/ \E r \in Slots, header \in AdminHeaders : StartLogout(r, header)
    \/ \E r \in Slots : LogoutCreate(r)
    \/ \E r \in Slots : Respond(r)

(* The administrative requests start from the catalog with one cart. *)
InitAdmin == Init /\ cartItem = {CartLine(1, "u1", "A", 1), CartLine(2, "u2", "A", 1)}

SpecAdmin == InitAdmin /\ [][NextAdmin]_vars

----------------------------------------------------------------------------
(* POST /api/checkout from its first line: the caller is the user that      *)
(* getCurrentUser resolves from the request's Authorization header.         *)

(* The entry of the handler without its role check. *)
CheckoutAuthAnyRole(r, header) ==
    /\ Free(r)
    /\ started < MaxRequests
    /\ started' = started + 1
    /\ LET u == getCurrentUser(header) IN
       IF u = NoUser
       THEN req' = [req EXCEPT ![r] =
                       [IdleReq EXCEPT !.op = "checkout", !.pc = "done",
                                       !.token = header.token,
                                       !.response = unauthorizedResponse]]
       ELSE req' = [req EXCEPT ![r] = [IdleReq EXCEPT !.op = "checkout",
                                                      !.pc = "findMany", !.user = u.id]]
    /\ UNCHANGED <<store, authVars, productReview, taxonomy>>

(* getCurrentUser, then user.role !== "CUSTOMER" *)
CheckoutAuth(r, header) ==
    /\ Free(r)
    /\ started < MaxRequests
    /\ started' = started + 1
    /\ LET u == getCurrentUser(header) IN
       IF u = NoUser
       THEN req' = [req EXCEPT ![r] =
                       [IdleReq EXCEPT !.op = "checkout", !.pc = "done",
                                       !.token = header.token,
                                       !.response = unauthorizedResponse]]
       ELSE IF u.role # "CUSTOMER"
       THEN req' = [req EXCEPT ![r] =
                       [IdleReq EXCEPT !.op = "checkout", !.pc = "done",
                                       !.token = header.token,
                                       !.response = Response(403,
                                           "Access denied: only customers can make payment.")]]
       ELSE req' = [req EXCEPT ![r] = [IdleReq EXCEPT !.op = "checkout",
                                                      !.pc = "findMany", !.user = u.id]]
    /\ UNCHANGED <<store, authVars, productReview, taxonomy>>

NextCheckoutAuth ==
    \/ \E r \in Slots, header \in Headers : CheckoutAuth(r, header)
    \/ \E r \in Slots : CheckoutLoad(r)
    \/ \E r \in Slots : CheckoutCreateOrder(r)
    \/ \E r \in Slots : CheckoutInvoiceOk(r)
    \/ \E r \in Slots : CheckoutInvoiceFail(r)
    \/ \E r \in Slots : CheckoutClear(r)
    \/ \E r \in Slots, header \in Headers : StartLogout(r, header)
    \/ \E r \in Slots : LogoutCreate(r)
    \/ \E r \in Slots : Respond(r)

SpecCheckoutAuth == Init /\ [][NextCheckoutAuth]_vars

----------------------------------------------------------------------------
(* Properties *)

(* Units of product p ordered by order o. *)
Ordered(o, p) ==
    LET lines == {i \in ItemsOf(o) : i.productId = p}
    IN  SumOver(lines, [i \in lines |-> i.quantity])

(* Units of product p in all orders. *)
Sold(p) ==
    LET lines == {i \in orderItem : i.productId = p}
    IN  SumOver(lines, [i \in lines |-> i.quantity])

(* C1: while no administrator changes the stock, two checkouts by different
   customers whose lines together exceed a product's stock never both end in
   an order: no two orders of different customers hold, together, more units
   of a product than its stock. *)
C1_NeverTwoSuccessfulOrders ==
    \A o1 \in order, o2 \in order :
        o1.userId # o2.userId =>
            \A p \in DOMAIN InitStock : Ordered(o1.id, p) + Ordered(o2.id, p) <= InitStock[p]

(* C2: while no administrator changes the stock, the units of a product in
   all order items never exceed the stock the product had before the orders
   were placed. *)
C2_NoOversell ==
    \A p \in DOMAIN InitStock : Sold(p) <= InitStock[p]

(* C3: the step of a checkout that creates the order lowers the stock of
   every ordered product by the ordered quantity, and never below zero. *)
C3_CheckoutDecrementsStock ==
    [][\A r \in Slots :
          (req[r].pc = "create" /\ req'[r].pc = "invoice") =>
              \A item \in req[r].cartItems :
                  /\ product'[item.productId].stock
                        = product[item.productId].stock - item.quantity
                  /\ product'[item.productId].stock >= 0]_vars

(* C4: the stock of every product is >= 0 in every reachable state. *)
C4_StockNonNegative ==
    \A p \in DOMAIN product : product[p].stock >= 0

(* An administrator has set a stock to zero and created a product, next to
   a cart that is filled. *)
C4_Witness ==
    /\ "C" \in DOMAIN product
    /\ \E p \in DOMAIN InitStock : product[p].stock = 0
    /\ cartItem # {}

(* The cart line of user u for product p with quantity q is in the rows. *)
HasLine(rows, u, p, q) ==
    \E c \in rows : c.userId = u /\ c.productId = p /\ c.quantity = q

AddRejections ==
    {"Not enough stock available", "Cannot add this quantity. It exceeds available stock."}

(* C5: an add of q units by a customer whose cart line the handler read with
   e units (0 without a line), for a product it read with stock s, succeeds
   iff e + q <= s.  On success the line holds e + q units; otherwise the
   response is 400 with the available stock s and no cart item changes.
   The line that was read is still in the cart when it is written. *)
C5_AddItem ==
    [][\A r \in Slots :
          LET u == req[r].user
              p == req[r].productId
              q == req[r].quantity
              e == req[r].existingCartItem.quantity
              lines == {c \in CartOf(u) : c.productId = p}
              resp == req'[r].response
          IN  /\ (At(r, "add", "findProduct") /\ p \in DOMAIN product /\ req'[r] # req[r]) =>
                    IF q <= product[p].stock
                    THEN req'[r].pc = "findExisting" /\ req'[r].product.stock = product[p].stock
                    ELSE /\ req'[r].pc = "done" /\ resp.status = 400
                         /\ resp.error \in AddRejections
                         /\ resp.availableStock = product[p].stock
                         /\ cartItem' = cartItem
              /\ (At(r, "add", "findExisting") /\ req'[r] # req[r]) =>
                    LET s == req[r].product.stock IN
                    IF req'[r].pc = "done"
                    THEN /\ \E c \in lines : c.quantity + q > s
                         /\ resp.status = 400 /\ resp.error \in AddRejections
                         /\ resp.availableStock = s
                         /\ cartItem' = cartItem
                    ELSE /\ req'[r].pc \in {"update", "create"}
                         /\ req'[r].pc = "create" <=> lines = {}
                         /\ req'[r].pc = "update" =>
                               /\ req'[r].existingCartItem \in lines
                               /\ req'[r].existingCartItem.quantity + q <= s
                         /\ cartItem' = cartItem
              /\ (At(r, "add", "update") /\ req[r].existingCartItem \in cartItem
                    /\ req'[r] # req[r]) =>
                    /\ e + q <= req[r].product.stock
                    /\ req'[r].pc = "done" /\ resp.status = 200
                    /\ cartItem' = (cartItem \ {req[r].existingCartItem})
                          \cup {[req[r].existingCartItem EXCEPT !.quantity = e + q]}
              /\ (At(r, "add", "create") /\ p \in DOMAIN product /\ req'[r] # req[r]) =>
                    /\ q <= req[r].product.stock
                    /\ req'[r].pc = "done" /\ resp.status = 201
                    /\ HasLine(cartItem', u, p, q)
                    /\ \E c \in cartItem' : cartItem' = cartItem \cup {c} /\ c \notin cartItem
      ]_vars

(* An add to a cart line that exists has succeeded. *)
C5_Witness ==
    \E r \in Slots :
        /\ req[r].op = "add" /\ req[r].pc = "done"
        /\ req[r].response.status = 200
        /\ \E c \in CartOf(req[r].user) : c.quantity >= 2

(* The step of slot r from step pc of a checkout. *)
CheckoutStep(r, pc) == At(r, "checkout", pc) /\ req'[r] # req[r]

NoOrderWritten == order' = order /\ orderItem' = orderItem /\ invoice' = invoice

(* C6: a checkout that finds the caller's cart empty answers 400 "Cart is
   empty" and creates no order, no order item and no invoice request. *)
C6_EmptyCart ==
    [][\A r \in Slots :
          (CheckoutStep(r, "findMany") /\ CartOf(req[r].user) = {}) =>
              /\ req'[r].pc = "done"
              /\ req'[r].response.status = 400
              /\ req'[r].response.error = "Cart is empty"
              /\ NoOrderWritten]_vars

(* A checkout of an empty cart has been answered. *)
C6_Witness ==
    \E r \in Slots :
        /\ req[r].op = "checkout" /\ req[r].pc = "done"
        /\ req[r].response.error = "Cart is empty"
        /\ CartOf(req[r].user) = {}

(* C7: a checkout that finds a cart line whose quantity exceeds the stock of
   its product answers 400 "Insufficient stock" naming such a line's
   product, its stock and the requested quantity; it creates no order, no
   order item and no invoice request and leaves the cart as it is. *)
C7_InsufficientStock ==
    [][\A r \in Slots :
          LET over == {c \in CartOf(req[r].user) : c.quantity > product[c.productId].stock}
          IN  (CheckoutStep(r, "findMany") /\ over # {}) =>
                  /\ req'[r].pc = "done"
                  /\ req'[r].response.status = 400
                  /\ req'[r].response.error = "Insufficient stock"
                  /\ \E c \in over :
                        /\ req'[r].response.productId = c.productId
                        /\ req'[r].response.availableStock = product[c.productId].stock
                        /\ req'[r].response.requestedQuantity = c.quantity
                  /\ NoOrderWritten
                  /\ cartItem' = cartItem]_vars

(* A checkout has been refused for a line that exceeds the stock, and the
   line is still in the cart. *)
C7_Witness ==
    \E r \in Slots :
        /\ req[r].op = "checkout" /\ req[r].pc = "done"
        /\ req[r].response.error = "Insufficient stock"
        /\ order = {}
        /\ \E c \in CartOf(req[r].user) :
              /\ c.productId = req[r].response.productId
              /\ c.quantity = req[r].response.requestedQuantity
              /\ c.quantity > req[r].response.availableStock

(* price x quantity summed over the order items of order o *)
ItemsTotal(o) ==
    LET lines == ItemsOf(o) IN SumOver(lines, [i \in lines |-> i.price * i.quantity])

(* C8: the step that ends a checkout with 200 leaves the caller's cart
   empty, and the order it answers with has a totalAmount equal to the sum
   of price x quantity over its order items. *)
C8_TotalAndEmptyCart ==
    [][\A r \in Slots :
          (CheckoutStep(r, "deleteMany") \/
             (req[r].op = "checkout" /\ req[r].pc # "done" /\ req'[r].pc = "done"
                /\ req'[r].response.status = 200)) =>
              /\ req'[r].pc = "done" /\ req'[r].response.status = 200
              /\ {c \in cartItem' : c.userId = req[r].user} = {}
              /\ \E o \in order :
                    /\ o.id = req'[r].response.orderId
                    /\ o.userId = req[r].user
                    /\ o.totalAmount = ItemsTotal(o.id)
                    /\ req'[r].response.totalAmount = o.totalAmount]_vars

(* A checkout of a line of two units has ended with 200. *)
C8_Witness ==
    \E r \in Slots :
        /\ req[r].op = "checkout" /\ req[r].pc = "done"
        /\ req[r].response.status = 200
        /\ CartOf(req[r].user) = {}
        /\ \E i \in ItemsOf(req[r].response.orderId) : i.quantity = 2

(* The order item made from the loaded cart line `item` for order o. *)
LineOf(item, o) ==
    {i \in ItemsOf(o) : /\ i.id = <<o, item.id>>
                        /\ i.productId = item.productId
                        /\ i.quantity = item.quantity
                        /\ i.price = item.product.price}

(* C9: the step of a checkout that creates the order adds exactly one order,
   owned by the caller and PENDING, and exactly one order item per cart line
   the checkout loaded, with the line's product id and quantity and the
   price of the product as loaded; its totalAmount is the sum of price x
   quantity over those lines. *)
C9_OneOrderOneItemPerLine ==
    [][\A r \in Slots :
          CheckoutStep(r, "create") =>
              \E o \in order' :
                  /\ o \notin order /\ order' = order \cup {o}
                  /\ \A old \in order : old.id # o.id
                  /\ o.userId = req[r].user
                  /\ o.paymentStatus = "PENDING"
                  /\ req'[r].order = o.id
                  /\ orderItem \subseteq orderItem'
                  /\ orderItem' \ orderItem = {i \in orderItem' : i.orderId = o.id}
                  /\ Cardinality(orderItem' \ orderItem) = Cardinality(req[r].cartItems)
                  /\ \A item \in req[r].cartItems :
                        \E i \in orderItem' \ orderItem :
                            /\ i.id = <<o.id, item.id>>
                            /\ i.productId = item.productId
                            /\ i.quantity = item.quantity
                            /\ i.price = item.product.price
                  /\ o.totalAmount =
                        SumOver(req[r].cartItems,
                                [item \in req[r].cartItems |->
                                    item.product.price * item.quantity])]_vars

(* The cart of product A at price 2 and product B at price 1, one unit of
   each, has become one order of two items and totalAmount 3. *)
C9_Witness ==
    \E o \in order :
        /\ order = {o}
        /\ o.totalAmount = 3
        /\ Cardinality(ItemsOf(o.id)) = 2
        /\ \E i \in ItemsOf(o.id) : i.productId = "A" /\ i.price = 2 /\ i.quantity = 1
        /\ \E i \in ItemsOf(o.id) : i.productId = "B" /\ i.price = 1 /\ i.quantity = 1

(* C10: in every reachable state every order has its order items: an order
   is never without items, and while the checkout that created it is in
   flight its items are exactly those of the cart lines the checkout
   loaded. *)
C10_OrderWithItems ==
    /\ \A o \in order : ItemsOf(o.id) # {}
    /\ \A i \in orderItem : \E o \in order : o.id = i.orderId
    /\ \A r \in Slots :
          req[r].order # 0 =>
              /\ \E o \in order : o.id = req[r].order
              /\ Cardinality(ItemsOf(req[r].order)) = Cardinality(req[r].cartItems)
              /\ \A item \in req[r].cartItems : LineOf(item, req[r].order) # {}

(* An order has been created by a checkout that is still in flight while
   another request is in flight too. *)
C10_Witness ==
    \E r1 \in Slots, r2 \in Slots :
        /\ r1 # r2
        /\ req[r1].pc = "invoice" /\ req[r1].order # 0
        /\ req[r2].pc \notin {"idle", "done"}
        /\ Cardinality(ItemsOf(req[r1].order)) = 2

(* The invoice requests of order o that the gateway refused. *)
FailedInvoices(o) == {i \in invoice : i.externalId = o /\ ~i.created}

(* C11: when the invoice request of a checkout fails, the order the checkout
   created stays stored, PENDING, with its items; the checkout answers 500
   with neither an order id nor an invoice URL. *)
C11_GatewayFailure ==
    [][\A r \in Slots :
          (CheckoutStep(r, "invoice")
             /\ \E i \in invoice' \ invoice : i.externalId = req[r].order /\ ~i.created) =>
              /\ order' = order
              /\ orderItem' = orderItem
              /\ \E o \in order' : o.id = req[r].order /\ o.paymentStatus = "PENDING"
              /\ ItemsOf(req[r].order) # {}
              /\ req'[r].pc = "done"
              /\ req'[r].response.status = 500
              /\ req'[r].response.error = "Failed to process checkout"
              /\ req'[r].response.orderId = 0
              /\ req'[r].response.invoiceUrl = 0]_vars

(* A checkout has answered 500 after the gateway refused its invoice, and
   its order is stored, PENDING. *)
C11_Witness ==
    \E r \in Slots :
        /\ req[r].op = "checkout" /\ req[r].pc = "done"
        /\ req[r].response.status = 500
        /\ \E o \in order :
              /\ o.userId = req[r].user /\ o.paymentStatus = "PENDING"
              /\ FailedInvoices(o.id) # {}

(* The step that ends the checkout of slot r with an error response. *)
CheckoutFails(r) ==
    /\ req[r].op = "checkout" /\ req[r].pc \notin {"idle", "done"}
    /\ req'[r].pc = "done"
    /\ req'[r].response.status >= 400

(* C12: a checkout that ends in failure leaves nothing behind: the step that
   ends it writes no table, and neither the order the checkout has created
   nor an item of that order is stored. *)
C12_FailureLeavesNoPartialState ==
    [][\A r \in Slots :
          CheckoutFails(r) =>
              /\ order' = order /\ orderItem' = orderItem
              /\ cartItem' = cartItem /\ product' = product
              /\ \A o \in order' : o.id # req[r].order
              /\ ItemsOf(req[r].order)' = {}]_vars

(* C13: a step of a checkout changes the cart items only once the checkout
   has created its order and its invoice request has succeeded, and then it
   deletes the caller's cart items and no others; the step of a failing
   invoice request, and every other step of the checkout, leaves all cart
   items in place. *)
C13_ClearOnlyAfterInvoice ==
    [][\A r \in Slots :
          (req[r].op = "checkout" /\ req'[r] # req[r] /\ req[r].pc # "done") =>
              /\ cartItem' # cartItem =>
                    /\ req[r].pc = "deleteMany"
                    /\ \E o \in order : o.id = req[r].order /\ o.userId = req[r].user
                    /\ \E i \in invoice : i.externalId = req[r].order /\ i.created
                    /\ cartItem' = {c \in cartItem : c.userId # req[r].user}
              /\ (\E i \in invoice' \ invoice : ~i.created) => cartItem' = cartItem
              /\ req[r].pc # "deleteMany" => cartItem' = cartItem]_vars

(* A checkout has ended with 500 on a refused invoice request and the lines
   it ordered are still in the caller's cart. *)
C13_Witness ==
    \E r \in Slots :
        /\ req[r].op = "checkout" /\ req[r].pc = "done"
        /\ req[r].response.status = 500
        /\ \E o \in order :
              /\ o.userId = req[r].user
              /\ FailedInvoices(o.id) # {}
              /\ \A i \in ItemsOf(o.id) :
                    HasLine(CartOf(req[r].user), req[r].user, i.productId, i.quantity)

(* C14: no step changes or removes an order or an order item: every row
   stays as it was created, whatever an administrator does to the product
   afterwards, and a new row never takes the id of an old one.  The step
   that creates an order writes the total and the prices the checkout
   loaded with the cart, whatever the product's price is by then. *)
C14_OrdersImmutable ==
    [][/\ order \subseteq order'
       /\ orderItem \subseteq orderItem'
       /\ \A o \in order' \ order : \A old \in order : old.id # o.id
       /\ \A i \in orderItem' \ orderItem : \A old \in orderItem : old.id # i.id
       /\ \A r \in Slots :
             CheckoutStep(r, "create") =>
                 /\ \E o \in order' \ order : o.totalAmount = req[r].totalAmount
                 /\ \A item \in req[r].cartItems :
                       \E i \in orderItem' \ orderItem :
                           /\ i.productId = item.productId
                           /\ i.price = item.product.price
                           /\ i.quantity = item.quantity]_vars

(* An order item holds a price that is no longer the price of its product,
   and the order's total is still the total of its items. *)
C14_Witness ==
    \E o \in order :
        /\ o.totalAmount = ItemsTotal(o.id)
        /\ \E i \in ItemsOf(o.id) :
              /\ i.productId \in DOMAIN product
              /\ product[i.productId].price # i.price

(* C15: a step that adds an order adds it PENDING; a step changes the
   paymentStatus of an order only from PENDING to PAID or to FAILED; an
   order that is PAID or FAILED stays stored with that status. *)
C15_PaymentStatusTransitions ==
    [][/\ \A o \in order' :
             (\A old \in order : old.id # o.id) => o.paymentStatus = "PENDING"
       /\ \A old \in order, o \in order' :
             (o.id = old.id /\ o.paymentStatus # old.paymentStatus) =>
                 /\ old.paymentStatus = "PENDING"
                 /\ o.paymentStatus \in {"PAID", "FAILED"}
       /\ \A old \in order :
             old.paymentStatus \in {"PAID", "FAILED"} =>
                 \E o \in order' : o.id = old.id /\ o.paymentStatus = old.paymentStatus
      ]_vars

(* Next to an order that is PAID or FAILED a checkout has created a second
   order, PENDING, and has ended. *)
C15_Witness ==
    \E old \in order, o \in order, r \in Slots :
        /\ old.paymentStatus \in {"PAID", "FAILED"}
        /\ o.id # old.id /\ o.paymentStatus = "PENDING"
        /\ req[r].op = "checkout" /\ req[r].pc = "done"
        /\ req[r].response.orderId = o.id

(* C16: in every reachable state a user's cart holds at most one cart item
   per product. *)
C16_OneCartItemPerUserProduct ==
    \A c1 \in cartItem, c2 \in cartItem :
        (c1.userId = c2.userId /\ c1.productId = c2.productId) => c1.id = c2.id

(* A JSON value that is a positive integer. *)
PositiveInteger(v) == IsInteger(v) /\ NumberValue(v) >= 1

(* The request of slot r is answered 400 and no cart item has changed. *)
Rejected400(r) ==
    /\ req'[r].pc = "done"
    /\ req'[r].response.status = 400
    /\ cartItem' = cartItem

(* C17: every cart item has a quantity that is an integer >= 1, and an add
   or an update of a quantity that is missing, below 1 or not a positive
   integer is answered 400 and changes no cart item. *)
C17_QuantityPositiveInteger ==
    [][/\ \A c \in cartItem' : c.quantity \in Nat \ {0}
       /\ \A r \in Slots, u \in Users, q \in JsonValues(MaxQty) :
             ~PositiveInteger(q) =>
                 /\ \A p \in ProductIds : StartAdd(r, u, p, q) => Rejected400(r)
                 /\ \A id \in CartItemIds, userId \in UserIdParams :
                       StartUpdate(r, u, id, userId, q) => Rejected400(r)]_vars

(* C18: an update to q, a positive integer, of a cart item that exists and
   belongs to the userId of the request goes on to its write iff q <= the
   stock of the item's product; otherwise it is answered 400 "Not enough
   stock available" with that stock and no cart item changes.  The write
   sets the quantity of the item to exactly q and changes nothing else. *)
C18_UpdateQuantity ==
    [][/\ \A r \in Slots, c \in cartItem, q \in JsonValues(MaxQty) :
             (/\ req[r].pc = "idle" /\ req'[r].op = "update"
              /\ PositiveInteger(q)
              /\ StartUpdate(r, req'[r].user, c.id, c.userId, q)) =>
                 LET stock == product[c.productId].stock IN
                 /\ cartItem' = cartItem
                 /\ IF NumberValue(q) <= stock
                    THEN req'[r].pc = "update" /\ req'[r].cartItemId = c.id
                         /\ req'[r].body = q
                    ELSE /\ req'[r].pc = "done"
                         /\ req'[r].response.status = 400
                         /\ req'[r].response.error = "Not enough stock available"
                         /\ req'[r].response.availableStock = stock
       /\ \A r \in Slots, c \in cartItem :
             (At(r, "update", "update") /\ req'[r] # req[r]
                /\ c.id = req[r].cartItemId /\ PositiveInteger(req[r].body)) =>
                 /\ req'[r].pc = "done" /\ req'[r].response.status = 200
                 /\ cartItem' = (cartItem \ {c})
                       \cup {[c EXCEPT !.quantity = NumberValue(req[r].body)]}]_vars

(* An update has replaced the one unit of product B in a cart by two, next
   to a line of one unit of product A. *)
C18_Witness ==
    \E r \in Slots, c \in cartItem :
        /\ req[r].op = "update" /\ req[r].pc = "done"
        /\ req[r].response.status = 200
        /\ c.productId = "B" /\ c.quantity = 2
        /\ \E a \in cartItem : a.productId = "A" /\ a.quantity = 1

(* C19: a step of an update or a remove changes or deletes a cart item only
   if the item belongs to the authenticated caller; a request of a caller
   for an item of another user is answered with an error at once, whatever
   userId it carries, and changes no cart item. *)
C19_ScopedToCaller ==
    [][/\ \A r \in Slots :
             (req[r].op \in {"update", "remove"} /\ req'[r] # req[r]) =>
                 \A c \in cartItem : c \notin cartItem' => c.userId = req[r].user
       /\ \A r \in Slots, u \in Users, c \in cartItem, userId \in UserIdParams :
             u # c.userId =>
                 /\ StartRemove(r, u, c.id, userId) =>
                       /\ req'[r].pc = "done"
                       /\ req'[r].response.status >= 400
                       /\ cartItem' = cartItem
                 /\ \A q \in JsonValues(MaxQty) :
                       StartUpdate(r, u, c.id, userId, q) =>
                           /\ req'[r].pc = "done"
                           /\ req'[r].response.status >= 400
                           /\ cartItem' = cartItem]_vars

(* The invoice requests made for order o. *)
InvoicesOf(o) == {i \in invoice : i.externalId = o}

(* The checkout that created order o has not yet requested its invoice. *)
BeforeInvoice(o) == \E r \in Slots : req[r].pc = "invoice" /\ req[r].order = o

(* C20: a step makes an invoice request only for the order its checkout has
   created, under the order's id and for the order's totalAmount, and only
   if no request was made under that id before.  After every step each
   order has exactly one invoice request, or none while its checkout has
   not reached the request, and every request belongs to an order. *)
C20_InvoiceExactlyOnce ==
    [][/\ \A i \in invoice' \ invoice :
             /\ InvoicesOf(i.externalId) = {}
             /\ invoice' = invoice \cup {i}
             /\ \E r \in Slots :
                   /\ CheckoutStep(r, "invoice") /\ req[r].order = i.externalId
             /\ \E o \in order : o.id = i.externalId /\ o.totalAmount = i.amount
       /\ invoice \subseteq invoice'
       /\ \A o \in order' :
             Cardinality(InvoicesOf(o.id)') = IF BeforeInvoice(o.id)' THEN 0 ELSE 1
       /\ \A i \in invoice' : \E o \in order' : o.id = i.externalId]_vars

(* Two checkouts have each created an order and requested its invoice: two
   orders, two requests under different ids. *)
C20_Witness ==
    /\ Cardinality(order) = 2
    /\ Cardinality(invoice) = 2
    /\ \A o \in order : Cardinality(InvoicesOf(o.id)) = 1
    /\ \A r \in Slots : req[r].pc # "invoice"

(* C21: token revocation is permanent.  No step removes a row of the
   revocation list; a logout that answers "Logged out successfully" leaves
   its token in the list; and every request that carries a revoked token is
   answered as an unauthenticated one (getCurrentUser is null: 401 from
   /auth/me, "Already logged out" from logout), whatever ran in between,
   logins of the same user included. *)
C21_RevocationPermanent ==
    [][/\ \A row \in invalidToken : row \in invalidToken'
       /\ \A r \in Slots :
             (At(r, "logout", "create")
                 /\ req'[r].response.error = "Logged out successfully")
                 => \E row \in invalidToken' : row.token = req[r].token
       /\ \A t \in Tokens :
             IsInvalidToken(t) =>
                 /\ getCurrentUser(Header("Bearer", t)) = NoUser
                 /\ \A r \in Slots :
                       /\ Me(r, Header("Bearer", t))
                             => req'[r].response = unauthorizedResponse
                       /\ StartLogout(r, Header("Bearer", t))
                             => req'[r].response.error = "Already logged out"]_vars

(* A request carrying a revoked token, one that verifies and names a stored
   user, got 401 as the last of the run's requests, while the token a login of
   the same user issues in another second still authenticates. *)
C21_Witness ==
    \E r \in Slots :
        /\ req[r].op = "me" /\ req[r].response = unauthorizedResponse
        /\ started = MaxAuthRequests
        /\ IsInvalidToken(req[r].token)
        /\ JwtVerifies(req[r].token)
        /\ req[r].token.userId \in DOMAIN user
        /\ \E iat \in IssuedAt :
              LET token == Token(req[r].token.userId,
                                 user[req[r].token.userId].role, iat, "live") IN
              /\ token # req[r].token
              /\ getCurrentUser(Header("Bearer", token)) # NoUser

(* The operations of the cart endpoints. *)
CartOps == {"add", "update", "remove", "list"}

(* C22: no cart operation changes the stock of a product.  Every step of an
   addItem, updateQuantity, removeItem or listItems request, whether the
   request ends in success or in an error, leaves the product table with the
   same products and the same stock. *)
C22_CartLeavesStock ==
    [][\A r \in Slots :
          (req'[r] # req[r] /\ (req[r].op \in CartOps \/ req'[r].op \in CartOps))
              => /\ DOMAIN product' = DOMAIN product
                 /\ \A p \in DOMAIN product : product'[p].stock = product[p].stock]_vars

(* A cart operation has changed the cart and a later one has failed, with the
   stock of the catalog as it was at the start. *)
C22_Witness ==
    /\ cartItem \notin InitCarts
    /\ \E r \in Slots :
          /\ req[r].op \in CartOps
          /\ req[r].pc = "done"
          /\ req[r].response.status >= 400
    /\ \A p \in DOMAIN InitStock : product[p].stock = InitStock[p]

(* C24: listItems answers with exactly the cart items of the authenticated
   caller.  The user whose cart is read is the one getCurrentUser resolves
   from the request's token, a CUSTOMER; the items of the answer are the rows
   of cartItem owned by that user and no others, totalPrice is the sum of
   product price x quantity over those rows rounded to 2 decimal places (in
   thousandths of the currency unit), itemCount is the number of those rows,
   and no step of the request changes a table. *)
C24_ListItems ==
    [][\A r \in Slots :
          /\ (req[r].pc = "idle" /\ req'[r].op = "list" /\ req'[r].pc = "findMany")
                => \A header \in Headers :
                      StartList(r, header)
                          => /\ getCurrentUser(header) # NoUser
                             /\ req'[r].user = getCurrentUser(header).id
                             /\ user[req'[r].user].role = "CUSTOMER"
          /\ (req[r].op = "list" /\ req[r].pc = "findMany" /\ req'[r].pc = "done")
                => LET mine == {c \in cartItem : c.userId = req[r].user}
                       resp == req'[r].response
                   IN  /\ resp.status = 200
                       /\ {CartLine(i.id, i.userId, i.productId, i.quantity) :
                              i \in resp.items} = mine
                       /\ \A i \in resp.items : i.product = product[i.productId]
                       /\ resp.totalPrice =
                             ToFixed2(1000 * SumOver(mine,
                                 [c \in mine |-> product[c.productId].price * c.quantity]))
                       /\ resp.itemCount = Cardinality(mine)
          /\ (req'[r] # req[r] /\ (req[r].op = "list" \/ req'[r].op = "list"))
                => UNCHANGED <<store, authVars, productReview, taxonomy>>]_vars

(* A customer got the list of a cart of two lines while the other customer
   had a line of their own, which the answer leaves out. *)
C24_Witness ==
    \E r \in Slots :
        /\ req[r].op = "list" /\ req[r].pc = "done"
        /\ req[r].response.status = 200
        /\ req[r].response.itemCount = 2
        /\ req[r].response.totalPrice > 0
        /\ \E c \in cartItem : c.userId # req[r].user

(* The header carries a Bearer token that is not revoked, verifies, and names
   a stored user. *)
ValidToken(header) ==
    /\ header.scheme = "Bearer"
    /\ header.token \notin {row.token : row \in invalidToken}
    /\ header.token.kind = "live"
    /\ header.token.userId \in DOMAIN user

(* C23: checkout is performed only for an authenticated caller of role
   CUSTOMER.  A checkout request without a valid, non-revoked token is
   answered 401 and one of a user whose stored role is not CUSTOMER is
   answered 403; either answer is given at the first step, which reads no
   cart and writes no table, and the request is over; every other request
   goes on as the checkout of the user the token names. *)
C23_CheckoutGate ==
    [][\A r \in Slots :
          /\ (req[r].pc = "idle" /\ req'[r].op = "checkout")
                => \A header \in Headers :
                      CheckoutAuth(r, header)
                          => /\ UNCHANGED <<store, authVars, productReview, taxonomy>>
                             /\ req'[r].cartItems = {}
                             /\ IF ~ValidToken(header)
                                THEN /\ req'[r].pc = "done"
                                     /\ req'[r].response.status = 401
                                ELSE IF user[header.token.userId].role # "CUSTOMER"
                                THEN /\ req'[r].pc = "done"
                                     /\ req'[r].response.status = 403
                                ELSE /\ req'[r].pc = "findMany"
                                     /\ req'[r].user = header.token.userId
          /\ (req[r].op = "checkout" /\ req[r].response.status \in {401, 403})
                => /\ req'[r] = IdleReq
                   /\ UNCHANGED <<store, authVars, productReview, taxonomy>>
          /\ (req[r].op = "checkout" /\ req[r].pc \notin {"idle", "done"})
                => /\ req[r].user \in DOMAIN user
                   /\ user[req[r].user].role = "CUSTOMER"]_vars

(* A customer with a filled cart has logged out, and the checkout sent with
   the revoked token, which still verifies, got 401: no order exists. *)
C23_Witness ==
    \E r \in Slots :
        /\ req[r].op = "checkout"
        /\ req[r].response.status = 401
        /\ JwtVerifies(req[r].token)
        /\ IsInvalidToken(req[r].token)
        /\ CartOf(req[r].token.userId) # {}
        /\ order = {}

(* The cart line an order item was created from. *)
CartLineOf(i) == i.id[2]

(* C25: one cart is converted into at most one order.  No cart line is
   ordered twice: two order items created from the same cart line belong to
   the same order, also when the user's two checkouts run at the same time or
   the second one retries a checkout whose invoice request failed; and so at
   most one invoice is requested for those lines. *)
C25_OneOrderPerCart ==
    /\ \A i \in orderItem, j \in orderItem :
          CartLineOf(i) = CartLineOf(j) => i.orderId = j.orderId
    /\ \A v \in invoice, w \in invoice :
          (\E i \in orderItem, j \in orderItem :
              /\ i.orderId = v.externalId /\ j.orderId = w.externalId
              /\ CartLineOf(i) = CartLineOf(j))
              => v.externalId = w.externalId

(* C26: a checkout removes only cart lines it has ordered.  Every cart item
   that the cart clear of a checkout deletes has an order item of the order
   that checkout created, with the same product and the same quantity, also
   when the user adds or updates a cart item between the checkout's cart load
   and its cart clear. *)
C26_ClearOnlyOrderedLines ==
    [][\A r \in Slots :
          (req[r].op = "checkout" /\ req[r].pc = "deleteMany" /\ req'[r].pc = "done")
              => \A c \in cartItem \ cartItem' :
                    \E i \in orderItem :
                        /\ i.orderId = req[r].order
                        /\ i.productId = c.productId
                        /\ i.quantity = c.quantity]_vars

(* C27: a checkout touches only its caller's rows.  On every step of a
   checkout of user u, ending in success or in an error: the cart items it
   loads are rows of u; the cart items of every other user stay as they are;
   no order or order item is removed or changed; an order it creates is owned
   by u and its items come from the cart lines it loaded. *)
C27_CheckoutOfCallerOnly ==
    [][\A r \in Slots :
          (req'[r] # req[r] /\ (req[r].op = "checkout" \/ req'[r].op = "checkout"))
              => LET u == IF req[r].op = "checkout" THEN req[r].user ELSE req'[r].user IN
                 /\ req[r].pc = "findMany"
                       => \A item \in req'[r].cartItems :
                             CartLine(item.id, u, item.productId, item.quantity)
                                 \in cartItem
                 /\ req[r].pc # "findMany" => req'[r].cartItems \subseteq req[r].cartItems
                 /\ {c \in cartItem' : c.userId # u} = {c \in cartItem : c.userId # u}
                 /\ order \subseteq order'
                 /\ orderItem \subseteq orderItem'
                 /\ \A o \in order' \ order : o.userId = u
                 /\ \A i \in orderItem' \ orderItem :
                       /\ \E o \in order' \ order : o.id = i.orderId
                       /\ \E item \in req[r].cartItems :
                             /\ item.id = CartLineOf(i)
                             /\ item.productId = i.productId
                             /\ item.quantity = i.quantity]_vars

(* A customer's checkout has succeeded and cleared that customer's cart
   while the other customer's cart line is still there, and every order is
   the caller's. *)
C27_Witness ==
    \E r \in Slots :
        /\ req[r].op = "checkout" /\ req[r].response.status = 200
        /\ CartOf(req[r].user) = {}
        /\ \E c \in cartItem : c.userId # req[r].user
        /\ order # {}
        /\ \A o \in order : o.userId = req[r].user

(* Every order item, cart item and review references a stored product. *)
ReferencesHold ==
    /\ \A i \in orderItem : i.productId \in DOMAIN product
    /\ \A c \in cartItem : c.productId \in DOMAIN product
    /\ \A v \in productReview : v.productId \in DOMAIN product

(* Product p is deleted by this step: with it go its reviews and its cart
   items, no order item references it, and a delete request answers 200. *)
DeletedWithItsRows(p) ==
    /\ \A i \in orderItem : i.productId # p
    /\ cartItem' = {c \in cartItem : c.productId # p}
    /\ productReview' = {v \in productReview : v.productId # p}
    /\ \E r \in Slots :
          /\ req[r].op = "delete" /\ req[r].productId = p
          /\ req'[r].response.status = 200

(* A delete request that does not answer 200 changes no table. *)
FailedDeleteChangesNothing ==
    \A r \in Slots :
        (req'[r] # req[r] /\ req'[r].op = "delete" /\ req'[r].response.status # 200)
            => UNCHANGED <<store, productReview, taxonomy>>

(* C28 as stated: references to products are preserved by product deletion,
   and the delete of a product that appears in an order item changes nothing
   and is answered 400. *)
C28_DeleteOfOrderedProductAnswers400 ==
    [][/\ ReferencesHold' /\ FailedDeleteChangesNothing
       /\ \A p \in DOMAIN product \ DOMAIN product' : DeletedWithItsRows(p)
       /\ \A r \in Slots :
             (req[r].op = "delete" /\ req'[r].pc = "done"
                 /\ \E i \in orderItem : i.productId = req[r].productId)
                 => req'[r].response.status = 400]_vars

(* C28, amended: references to products are preserved by product deletion.
   In every reachable state every order item, cart item and review references
   a stored product, also when a checkout or an add-to-cart interleaves with
   the delete.  A product leaves the catalog only in a step that removes its
   reviews and cart items with it, and only when no order item references it;
   a delete that fails changes nothing.  The delete of a product that appears
   in an order item is answered 400 when the order item exists at the
   handler's check, and 500 when it was created after the check and before
   the transaction. *)
C28_ProductDeletion ==
    [][/\ ReferencesHold' /\ FailedDeleteChangesNothing
       /\ \A p \in DOMAIN product \ DOMAIN product' : DeletedWithItsRows(p)
       /\ \A r \in Slots :
             (req[r].op = "delete" /\ req'[r].pc = "done"
                 /\ \E i \in orderItem : i.productId = req[r].productId)
                 => /\ req'[r].response.status \in {400, 500}
                    /\ req[r].pc = "findFirst" => req'[r].response.status = 400
                    /\ req'[r].response.status = 500 => req[r].pc = "transaction"
       /\ \A r \in Slots :
             (req[r].pc = "idle" /\ req'[r].op = "delete")
                 => \A header \in DeleteHeaders, variant \in DeleteVariants,
                       id \in DOMAIN product :
                       (/\ authAdminOnly(header)
                        /\ \E i \in orderItem : i.productId = id
                        /\ StartDelete(r, header, id, variant))
                           => IF variant = "form"
                              THEN req'[r].response.status = 400
                              ELSE req'[r].pc = "findFirst"]_vars

(* A product was deleted together with the cart line and the review that
   referenced it, and the checkout that had loaded that cart line before the
   delete got 500: no order item references the deleted product. *)
C28_Witness ==
    /\ "A" \notin DOMAIN product
    /\ productReview = {}
    /\ \E r \in Slots :
          /\ req[r].op = "checkout"
          /\ req[r].response.status = 500
          /\ invoice = {}

(* C30: auth returns a user exactly for a valid request.  For every header,
   in every reachable state, auth is not null only if the header carries a
   Bearer token that is not in the revocation list, whose signature and
   expiry verify, and whose user is stored; the user returned has the id the
   token names and the role stored for that user, whatever role the token
   records; in every other case, a failed verification included, auth is
   null.  /auth/me answers accordingly: 200 with that user, or 401. *)
C30_AuthReturnsStoredUser ==
    [][/\ \A header \in Headers :
             IF ValidToken(header)
             THEN auth(header) = AuthUser(header.token.userId,
                                          user[header.token.userId].role)
             ELSE auth(header) = NoUser
       /\ \A r \in Slots :
             (req[r].pc = "idle" /\ req'[r].op = "me")
                 => \A header \in Headers :
                       Me(r, header)
                           => IF ValidToken(header)
                              THEN /\ req'[r].response.status = 200
                                   /\ req'[r].response.user.id = header.token.userId
                                   /\ req'[r].response.user.role =
                                         user[header.token.userId].role
                              ELSE req'[r].response = unauthorizedResponse]_vars

(* A request was authenticated with a token that records another role than
   the one stored for its user, and was answered with the stored role, while
   another token is revoked. *)
C30_Witness ==
    \E r \in Slots :
        /\ req[r].op = "me" /\ req[r].response.status = 200
        /\ req[r].token.role # req[r].response.user.role
        /\ req[r].response.user.role = user[req[r].token.userId].role
        /\ invalidToken # {}

(* The operations that change the catalog or create an administrator. *)
AdminOps ==
    {"productCreate", "productUpdate", "delete",
     "taxonomyCreate", "taxonomyUpdate", "taxonomyDelete", "adminCreate"}

(* The header authenticates a user whose stored role is ADMIN. *)
IsAdminCaller(header) ==
    ValidToken(header) /\ user[header.token.userId].role = "ADMIN"

(* This step is the first step of an administrative request of slot r that
   carries the header. *)
AdminRequest(r, header) ==
    \/ /\ req'[r].op = "productCreate"
       /\ \E data \in AdminCreateDatas : StartProductCreate(r, header, data)
    \/ /\ req'[r].op = "productUpdate"
       /\ \E id \in ProductIds, data \in AdminUpdateDatas :
             StartProductUpdate(r, header, id, data)
    \/ /\ req'[r].op = "delete"
       /\ \E id \in ProductIds, variant \in DeleteVariants :
             StartDelete(r, header, id, variant)
    \/ /\ req'[r].op = "taxonomyCreate"
       /\ \E table \in Tables, name \in Names :
             StartTaxonomyCreate(r, header, table, name)
    \/ /\ req'[r].op = "taxonomyUpdate"
       /\ \E table \in Tables, name \in Names :
             \E id \in RowIds(table) : StartTaxonomyUpdate(r, header, table, id, name)
    \/ /\ req'[r].op = "taxonomyDelete"
       /\ \E table \in Tables :
             \E id \in RowIds(table) : StartTaxonomyDelete(r, header, table, id)
    \/ /\ req'[r].op = "adminCreate"
       /\ \E email \in AdminEmails, password \in AdminPasswords :
             StartAdminCreate(r, header, email, password)

(* C29: catalog and administrative mutations take effect only for a caller
   who authenticates as a user whose stored role is ADMIN.  A request of any
   other caller (no token, a revoked or expired token, a customer, also one
   whose token records the role ADMIN) is answered 401 or 403 at its first
   step and is over; and every step that changes a product, brand, category
   or user record is a step of a request whose caller was authenticated as a
   stored administrator. *)
C29_AdminOnlyMutations ==
    [][/\ \A r \in Slots :
             (/\ req[r].pc = "idle" /\ req'[r].op \in AdminOps
              /\ ~(req'[r].pc = "done" /\ req'[r].response.status \in {401, 403}))
                 => \A header \in AdminHeaders :
                       AdminRequest(r, header) => IsAdminCaller(header)
       /\ (product' # product \/ brand' # brand \/ category' # category
              \/ user' # user)
             => \E r \in Slots :
                   /\ req[r].op \in AdminOps
                   /\ req[r].pc \notin {"idle", "done"}
                   /\ req'[r].pc = "done"
                   /\ req[r].user \in DOMAIN user
                   /\ user[req[r].user].role = "ADMIN"
       /\ \A r \in Slots :
             (req[r].op \in AdminOps /\ req[r].response.status \in {401, 403})
                 => /\ req'[r] = IdleReq
                    /\ UNCHANGED <<store, authVars, productReview, taxonomy>>]_vars

(* An administrator has logged out, and a request to change the catalog that
   carried the revoked token, which still verifies and names a stored
   administrator, got 401: the catalog is as it was. *)
C29_Witness ==
    \E r \in Slots :
        /\ req[r].op \in AdminOps
        /\ req[r].response.status = 401
        /\ IsInvalidToken(req[r].token)
        /\ JwtVerifies(req[r].token)
        /\ user[req[r].token.userId].role = "ADMIN"
        /\ brand = InitBrand /\ category = InitCategory
        /\ DOMAIN product = DOMAIN InitStock

====
